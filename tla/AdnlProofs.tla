----------------------------- MODULE AdnlProofs -----------------------------
(***************************************************************************)
(* Proofs about the ADNL burn: whatever the device refuses, corrupts,      *)
(* stores wrongly or resets, a partition that was passed holds its image   *)
(* (BurnedIntact), and the burn keeps the contract of a burn               *)
(* (AdnlKeepsContract).  The inductive invariant is IInv of AdnlProps;     *)
(* each of its parts has one lemma saying that every step keeps it.  What  *)
(* the boot chain starts (StageAgrees, TplInPlace) and counts (TypeOK)     *)
(* follows.                                                                *)
(***************************************************************************)
EXTENDS AdnlProps, SequenceTheorems, TLAPS

USE SizesAssumption

\* The commands of each section, one fact per section.
LEMMA Scripts ==
  /\ sec = "probe" => Script = <<Identify(AnyStage)>>
  /\ sec = "toRom" => Script = <<Cmd("reboot-romusb", NoArg, "OKAY")>>
  /\ sec = "secure" => Script = SecureScript
  /\ sec = "rom" => Script = RomScript
  /\ sec = "bl2" => Script = Bl2Script
  /\ sec = "cbw" => Script = <<Cmd("cbw", NoArg, "OKAY")>>
  /\ sec = "piece" => Script = PieceScript
  /\ sec = "splSum" => Script = <<Cmd("setvar", [name |-> "checksum"], "DATA"),
                                  Cmd("sum", [bytes |-> sum], "OKAY")>>
  /\ sec = "tpl" => Script = TplScript
  /\ sec = "oem" => Script = <<OemMwrite(part)>>
  /\ sec = "mwrite" => Script = <<Cmd("mwrite", NoArg, "OKAY")>>
  /\ sec = "tplSum" => Script = <<Cmd("sum", [bytes |-> sum], "OKAY")>>
  /\ sec = "verify" => Script = <<Cmd("oem verify", [part |-> part], "OKAY")>>
  /\ sec = "reboot" => Script = <<Cmd("reboot", NoArg, "OKAY")>>
  /\ sec \in {"find", "waitRom", "waitTpl", "blocks"} \cup Ended => Script = <<>>
BY Zenon DEF Script, Ended

\* After a partition comes the next one, or the end.
LEMMA Nexts ==
  ASSUME NEW p
  PROVE /\ p <= NumParts => NextPartition(p) = "oem"
        /\ ~(p <= NumParts) => NextPartition(p) \in {"reboot", "done"}
BY Zenon DEF NextPartition

\* The sections that lead to the next one, one disjunct each.
LEMMA Moves ==
  ASSUME HostNextSection
  PROVE \/ sec = "toRom" /\ Goto("waitRom")
        \/ sec = "rom" /\ Goto("bl2")
        \/ sec = "splSum" /\ Goto("cbw")
        \/ sec = "tpl" /\ Goto(NextPartition(part))
        \/ sec = "oem" /\ Goto("mwrite")
        \/ sec = "tplSum" /\ Goto("mwrite")
        \/ sec = "reboot" /\ Goto("done")
BY DEF HostNextSection, After

\* Two sequences over a set, joined.
LEMMA Joined ==
  ASSUME NEW S, NEW s \in Seq(S), NEW t \in Seq(S)
  PROVE s \o t \in Seq(S) /\ Len(s \o t) = Len(s) + Len(t)
BY ConcatProperties

\* Short tuples are sequences.
LEMMA Tuples ==
  ASSUME NEW S
  PROVE /\ \A p \in S : <<p>> \in Seq(S)
        /\ \A p, q \in S : <<p, q>> \in Seq(S)
        /\ \A p, q, r \in S : <<p, q, r>> \in Seq(S)
        /\ \A p, q, r, s, t, u \in S : <<p, q, r, s, t, u>> \in Seq(S)
OBVIOUS

RomOps == {"getvar", "setvar", "steps", "download", "data"}

\* What the rows of the boot ROM's script are, but for the last.
RomRow(r) ==
  /\ r.op \in RomOps /\ r.expect \in {"OKAY", "DATA"}
  /\ r.op = "setvar" => r.arg.name = "burnsteps"
  /\ r.op = "data" => r.arg = Slice(DdrItem(secure), 0, setup.splSize)

\* The script of the boot ROM has only such rows, and boots at its end.
LEMMA RomRows ==
  /\ Len(RomScript) \in Nat
  /\ \A i \in 1 .. Len(RomScript) :
       IF i = Len(RomScript) THEN RomScript[i] = Cmd("boot", NoArg, "OKAY")
       ELSE RomRow(RomScript[i])
<1>. DEFINE data == Cmd("data", Slice(DdrItem(secure), 0, setup.splSize), "OKAY")
            Step(v) == Cmd("steps", [name |-> v], "OKAY")
            R == {Getvar("serialno"), Getvar("chipinfo-0"), Getvar("chipinfo-1"),
                  Getvar("chipinfo-2"), Getvar("chipinfo-3"), Getvar("downloadsize"),
                  Cmd("setvar", [name |-> "burnsteps"], "DATA"),
                  Step("ROM 0"), Step("ROM 1"), Step("ROM 2"),
                  Cmd("download", [n |-> DownloadSize], "DATA"), data}
<1>1. \A r \in R : RomRow(r)
  <2>1. \A op \in RomOps \ {"setvar", "data"} : \A argument : \A expect \in {"OKAY", "DATA"} :
          RomRow(Cmd(op, argument, expect))
    BY DEF RomRow, Cmd
  <2>2. \A n : RomRow(Getvar(n))
    BY <2>1 DEF Getvar, RomOps
  <2>3. \A v : RomRow(Step(v))
    BY <2>1 DEF RomOps
  <2>4. RomRow(Cmd("setvar", [name |-> "burnsteps"], "DATA")) /\ RomRow(data)
    BY DEF RomRow, RomOps, Cmd
  <2>5. RomRow(Cmd("download", [n |-> DownloadSize], "DATA"))
    BY <2>1 DEF RomOps
  <2>. QED
    BY <2>2, <2>3, <2>4, <2>5
<1>2. /\ Getvar("serialno") \in R /\ Getvar("chipinfo-0") \in R
      /\ Getvar("chipinfo-1") \in R /\ Getvar("chipinfo-2") \in R
      /\ Getvar("chipinfo-3") \in R /\ Getvar("downloadsize") \in R
      /\ Cmd("setvar", [name |-> "burnsteps"], "DATA") \in R
      /\ Step("ROM 0") \in R /\ Step("ROM 1") \in R /\ Step("ROM 2") \in R
      /\ Cmd("download", [n |-> DownloadSize], "DATA") \in R
      /\ data \in R
  OBVIOUS
<1>. HIDE DEF R, data
<1>3. /\ Burnsteps("ROM 0") \in Seq(R) /\ Burnsteps("ROM 1") \in Seq(R)
      /\ Burnsteps("ROM 2") \in Seq(R)
  BY <1>2, Tuples DEF Burnsteps
<1>. DEFINE a == <<Getvar("serialno"), Getvar("chipinfo-1"), Getvar("chipinfo-0"),
                   Getvar("chipinfo-1"), Getvar("chipinfo-2"), Getvar("chipinfo-3")>>
            b == <<Getvar("chipinfo-1")>>
            c == <<Getvar("downloadsize"),
                   Cmd("download", [n |-> DownloadSize], "DATA"), data>>
            d == Cmd("boot", NoArg, "OKAY")
            before == a \o Burnsteps("ROM 0") \o b \o Burnsteps("ROM 1") \o c
                        \o Burnsteps("ROM 2")
<1>4. a \in Seq(R) /\ b \in Seq(R) /\ c \in Seq(R)
  BY <1>2, Tuples
<1>. HIDE DEF a, b, c
<1>5. before \in Seq(R)
  <2>. HIDE DEF Step
  <2>1. a \o Burnsteps("ROM 0") \in Seq(R)
    BY <1>3, <1>4, Joined
  <2>2. a \o Burnsteps("ROM 0") \o b \in Seq(R)
    BY <1>4, <2>1, Joined
  <2>3. a \o Burnsteps("ROM 0") \o b \o Burnsteps("ROM 1") \in Seq(R)
    BY <1>3, <2>2, Joined
  <2>4. a \o Burnsteps("ROM 0") \o b \o Burnsteps("ROM 1") \o c \in Seq(R)
    BY <1>4, <2>3, Joined
  <2>. QED
    BY <1>3, <2>4, Joined
<1>6. RomScript = before \o <<d>>
  BY DEF RomScript, a, b, c, data
<1>. HIDE DEF before, d
<1>7. /\ Len(RomScript) = Len(before) + 1 /\ Len(before) \in Nat
      /\ RomScript[Len(before) + 1] = d
      /\ \A j \in 1 .. Len(before) : RomScript[j] = before[j] /\ before[j] \in R
  BY <1>5, <1>6
<1>. QED
  BY <1>1, <1>7 DEF d

\* The rows that only ask who and what the device is.
LEMMA SecureRows ==
  /\ Len(SecureScript) \in Nat
  /\ \A i \in 1 .. Len(SecureScript) :
       SecureScript[i].op \in {"identify", "getvar"} /\ SecureScript[i].expect = "OKAY"
<1>. DEFINE R == {Identify({"ROM"}), Identify({"ROM", "SPL"}), Getvar("chipinfo-1")}
<1>1. \A r \in R : r.op \in {"identify", "getvar"} /\ r.expect = "OKAY"
  BY DEF Identify, Getvar, Cmd
<1>2. /\ Identify({"ROM"}) \in R /\ Identify({"ROM", "SPL"}) \in R
      /\ Getvar("chipinfo-1") \in R
  OBVIOUS
<1>. HIDE DEF R
<1>3. <<Identify({"ROM"})>> \in Seq(R) /\ ChipInfo \in Seq(R)
  BY <1>2, Tuples DEF ChipInfo
<1>4. SecureScript \in Seq(R)
  <2>1. <<Identify({"ROM"})>> \o ChipInfo \in Seq(R)
    BY <1>3, Joined
  <2>. QED
    BY <1>3, <2>1, Joined DEF SecureScript
<1>. QED
  BY <1>1, <1>4

\* The rows of the SPL's first script.
LEMMA Bl2Rows ==
  /\ Len(Bl2Script) \in Nat
  /\ \A i \in 1 .. Len(Bl2Script) :
       /\ Bl2Script[i].op \in {"identify", "setvar", "steps"}
       /\ Bl2Script[i].expect \in {"OKAY", "DATA"}
       /\ Bl2Script[i].op = "setvar" => Bl2Script[i].arg.name = "burnsteps"
<1>. DEFINE R == {Identify({"SPL"}), Cmd("setvar", [name |-> "burnsteps"], "DATA"),
                  Cmd("steps", [name |-> "ROM 3"], "OKAY")}
            IsRow(r) == /\ r.op \in {"identify", "setvar", "steps"}
                        /\ r.expect \in {"OKAY", "DATA"}
                        /\ r.op = "setvar" => r.arg.name = "burnsteps"
<1>1. \A r \in R : IsRow(r)
  <2>1. IsRow(Identify({"SPL"})) /\ IsRow(Cmd("steps", [name |-> "ROM 3"], "OKAY"))
    BY DEF Identify, Cmd
  <2>2. IsRow(Cmd("setvar", [name |-> "burnsteps"], "DATA"))
    BY DEF Cmd
  <2>. QED
    BY <2>1, <2>2
<1>2. /\ Identify({"SPL"}) \in R /\ Cmd("setvar", [name |-> "burnsteps"], "DATA") \in R
      /\ Cmd("steps", [name |-> "ROM 3"], "OKAY") \in R
  OBVIOUS
<1>. HIDE DEF R
<1>3. <<Identify({"SPL"})>> \in Seq(R) /\ Burnsteps("ROM 3") \in Seq(R)
  BY <1>2, Tuples DEF Burnsteps
<1>4. Bl2Script \in Seq(R)
  BY <1>3, Joined DEF Bl2Script
<1>. QED
  BY <1>1, <1>4

\* How long the scripts are whose end matters.
LEMMA Lengths ==
  /\ sec \in {"oem", "mwrite", "verify", "cbw", "tplSum"} => Len(Script) = 1
  /\ sec = "tpl" => Len(Script) = 5
  /\ sec \in {"find", "waitRom", "waitTpl", "blocks"} \cup Ended => Len(Script) = 0
BY Scripts DEF TplScript

\* The only row of a script.
LEMMA OnlyRow ==
  ASSUME NEW r, Script = <<r>>, ip \in Nat \ {0}, ip <= Len(Script)
  PROVE Row = r
<1>1. Len(Script) = 1 /\ Script[1] = r
  OBVIOUS
<1>2. ip = 1
  BY <1>1
<1>. QED
  BY <1>1, <1>2 DEF Row

\* Which commands stand in which row.
LEMMA Rows ==
  ASSUME ip \in Nat \ {0}, ip <= Len(Script),
         SectionInv
  PROVE /\ Row.expect \in {"OKAY", "DATA"}
        /\ Row.op = "setvar" => Row.arg.name \in {"burnsteps", "checksum"}
        /\ Row.op = "oem disk_initial" => sec = "tpl"
        /\ Row.op = "oem mwrite" => sec = "oem" /\ Row.arg.part = part
        /\ Row.op = "mwrite" => sec = "mwrite"
        /\ Row.op = "oem verify" => sec = "verify"
        /\ Row.op = "download" => sec \in {"rom", "piece"}
        /\ Row.op = "reboot-romusb" => sec = "toRom"
        /\ Row.op = "reboot" => sec = "reboot"
        /\ Row.op = "cbw" => sec = "cbw"
        /\ Row.op = "boot" => sec = "rom" /\ ip = Len(Script)
        /\ Row.op = "data" => \/ sec = "rom" /\ Row.arg = Slice(DdrItem(secure), 0, setup.splSize)
                              \/ sec = "piece" /\ Row.arg = TplSlice(buf.from, PieceLength)
        /\ Row.op = "sum" => Row.arg.bytes = sum
        /\ sec = "piece" => \/ ip = 1 /\ Row.op = "download" /\ Row.expect = "DATA"
                            \/ ip = 2 /\ Row.op = "data" /\ Row.expect = "OKAY"
        /\ sec = "probe" => Row.op = "identify" /\ Row.expect = "OKAY"
        /\ sec = "toRom" => Row.op = "reboot-romusb" /\ Row.expect = "OKAY"
        /\ sec = "oem" => Row.op = "oem mwrite" /\ Row.expect = "OKAY"
        /\ sec = "verify" => Row.op = "oem verify" /\ Row.expect = "OKAY"
        /\ sec = "cbw" => Row.op = "cbw" /\ Row.expect = "OKAY"
        /\ sec = "tplSum" => Row.op = "sum" /\ Row.expect = "OKAY"
        /\ sec = "mwrite" => Row.op = "mwrite" /\ Row.expect = "OKAY"
        /\ sec = "tpl" /\ ip = 4 => Row.op = "oem disk_initial"
        /\ sec = "tpl" /\ ip # 4 => Row.op # "oem disk_initial"
<1>1. CASE sec = "rom"
  <2>1. Row = RomScript[ip] /\ ip \in 1 .. Len(RomScript)
    BY <1>1, Scripts DEF Row
  <2>2. IF ip = Len(Script) THEN Row = Cmd("boot", NoArg, "OKAY") ELSE RomRow(Row)
    BY <1>1, <2>1, RomRows, Scripts
  <2>3. CASE ip = Len(Script)
    <3>1. Row.op = "boot" /\ Row.expect = "OKAY"
      BY <2>2, <2>3 DEF Cmd
    <3>. QED
      BY <1>1, <2>3, <3>1
  <2>4. CASE ip # Len(Script)
    BY <1>1, <2>2, <2>4 DEF RomRow, RomOps
  <2>. QED
    BY <2>3, <2>4
<1>2. CASE sec = "secure"
  <2>1. Row = SecureScript[ip] /\ ip \in 1 .. Len(SecureScript)
    BY <1>2, Scripts DEF Row
  <2>2. Row.op \in {"identify", "getvar"} /\ Row.expect = "OKAY"
    BY <2>1, SecureRows
  <2>. QED
    BY <1>2, <2>2
<1>3. CASE sec = "bl2"
  <2>1. Row = Bl2Script[ip] /\ ip \in 1 .. Len(Bl2Script)
    BY <1>3, Scripts DEF Row
  <2>2. /\ Row.op \in {"identify", "setvar", "steps"} /\ Row.expect \in {"OKAY", "DATA"}
        /\ Row.op = "setvar" => Row.arg.name = "burnsteps"
    BY <2>1, Bl2Rows
  <2>. QED
    BY <1>3, <2>2
<1>4. CASE sec = "tpl"
  <2>1. Script = TplScript /\ Len(Script) = 5
    BY <1>4, Scripts, Lengths
  <2>3. Row = TplScript[ip] /\ ip \in 1 .. 5
    BY <2>1 DEF Row
  <2>2. /\ TplScript[1].op = "identify" /\ TplScript[2].op = "oem setvar"
        /\ TplScript[3].op = "oem setvar" /\ TplScript[4].op = "oem disk_initial"
        /\ TplScript[5].op = "oem setvar"
        /\ TplScript[1].expect = "OKAY" /\ TplScript[2].expect = "OKAY"
        /\ TplScript[3].expect = "OKAY" /\ TplScript[4].expect = "OKAY"
        /\ TplScript[5].expect = "OKAY"
    BY DEF TplScript, Cmd, Identify, OemSetvar
  <2>4. ip = 1 \/ ip = 2 \/ ip = 3 \/ ip = 4 \/ ip = 5
    BY <2>3
  <2>. QED
    BY <1>4, <2>2, <2>3, <2>4
<1>5. CASE sec = "piece"
  <2>1. Script = PieceScript /\ Len(Script) = 2
    BY <1>5, Scripts DEF PieceScript
  <2>3. Row = PieceScript[ip] /\ (ip = 1 \/ ip = 2)
    BY <2>1 DEF Row
  <2>2. /\ PieceScript[1].op = "download" /\ PieceScript[2].op = "data"
        /\ PieceScript[1].expect = "DATA" /\ PieceScript[2].expect = "OKAY"
        /\ PieceScript[2].arg = TplSlice(buf.from, PieceLength)
    BY DEF PieceScript, Cmd
  <2>. QED
    BY <1>5, <2>2, <2>3
<1>6. CASE sec = "splSum"
  <2>. DEFINE rows == <<Cmd("setvar", [name |-> "checksum"], "DATA"),
                        Cmd("sum", [bytes |-> sum], "OKAY")>>
  <2>1. Script = rows
    BY <1>6, Scripts
  <2>4. Len(Script) = 2
    BY <2>1
  <2>3. Row = rows[ip] /\ (ip = 1 \/ ip = 2)
    BY <2>1, <2>4 DEF Row
  <2>2. /\ rows[1].op = "setvar" /\ rows[1].arg.name = "checksum" /\ rows[2].op = "sum"
        /\ rows[1].expect = "DATA" /\ rows[2].expect = "OKAY" /\ rows[2].arg.bytes = sum
    BY DEF Cmd
  <2>. HIDE DEF rows
  <2>. QED
    BY <1>6, <2>2, <2>3
<1>7. CASE sec = "probe"
  <2>1. Script = <<Identify(AnyStage)>>
    BY <1>7, Scripts
  <2>2. Row = Identify(AnyStage)
    BY <2>1, OnlyRow
  <2>. QED
    BY <1>7, <2>2 DEF Identify
<1>8. CASE sec = "toRom"
  <2>1. Script = <<Cmd("reboot-romusb", NoArg, "OKAY")>>
    BY <1>8, Scripts
  <2>2. Row = Cmd("reboot-romusb", NoArg, "OKAY")
    BY <2>1, OnlyRow
  <2>. QED
    BY <1>8, <2>2 DEF Cmd
<1>9. CASE sec = "reboot"
  <2>1. Script = <<Cmd("reboot", NoArg, "OKAY")>>
    BY <1>9, Scripts
  <2>2. Row = Cmd("reboot", NoArg, "OKAY")
    BY <2>1, OnlyRow
  <2>. QED
    BY <1>9, <2>2 DEF Cmd
<1>10. CASE sec = "cbw"
  <2>1. Script = <<Cmd("cbw", NoArg, "OKAY")>>
    BY <1>10, Scripts
  <2>2. Row = Cmd("cbw", NoArg, "OKAY")
    BY <2>1, OnlyRow
  <2>. QED
    BY <1>10, <2>2 DEF Cmd
<1>11. CASE sec = "oem"
  <2>1. Script = <<OemMwrite(part)>>
    BY <1>11, Scripts
  <2>2. Row = OemMwrite(part)
    BY <2>1, OnlyRow
  <2>. QED
    BY <1>11, <2>2 DEF OemMwrite, Cmd
<1>12. CASE sec = "mwrite"
  <2>1. Script = <<Cmd("mwrite", NoArg, "OKAY")>>
    BY <1>12, Scripts
  <2>2. Row = Cmd("mwrite", NoArg, "OKAY")
    BY <2>1, OnlyRow
  <2>. QED
    BY <1>12, <2>2 DEF Cmd
<1>13. CASE sec = "tplSum"
  <2>1. Script = <<Cmd("sum", [bytes |-> sum], "OKAY")>>
    BY <1>13, Scripts
  <2>2. Row = Cmd("sum", [bytes |-> sum], "OKAY")
    BY <2>1, OnlyRow
  <2>. QED
    BY <1>13, <2>2 DEF Cmd
<1>14. CASE sec = "verify"
  <2>1. Script = <<Cmd("oem verify", [part |-> part], "OKAY")>>
    BY <1>14, Scripts
  <2>2. Row = Cmd("oem verify", [part |-> part], "OKAY")
    BY <2>1, OnlyRow
  <2>. QED
    BY <1>14, <2>2 DEF Cmd
<1>15. CASE sec \in {"find", "waitRom", "waitTpl", "blocks"} \cup Ended
  <2>1. Len(Script) = 0
    BY <1>15, Lengths
  <2>2. FALSE
    BY <2>1
  <2>. QED
    BY <2>2
<1>. QED
  BY <1>1, <1>2, <1>3, <1>4, <1>5, <1>6, <1>7, <1>8,
     <1>9, <1>10, <1>11, <1>12, <1>13, <1>14, <1>15
     DEF SectionInv, BeforeParts, InPart, AfterParts, Ended

----------------------------------------------------------------------------
(* Every step preserves the invariant. *)

\* Every step keeps the section and the partition in step.
LEMMA SectionNext ==
  ASSUME IInv, Next
  PROVE SectionInv'
<1>. USE DEF IInv, SectionInv, BeforeParts, InPart, AfterParts
<1>1. CASE DevNext /\ UNCHANGED hostVars
  BY <1>1 DEF hostVars
<1>2. CASE HostSend \/ HostReceive \/ HostBusy
  BY <1>2 DEF HostSend, HostReceive, HostBusy
<1>3. CASE HostUnexpected \/ HostUsbError
  BY <1>3 DEF HostUnexpected, HostUsbError, Fail, Goto
<1>4. CASE HostFind \/ HostProbed
  BY <1>4 DEF HostFind, HostProbed, Goto
<1>5. CASE HostNextSection
  <2>1. UNCHANGED part
    BY <1>5 DEF HostNextSection
  <2>2. CASE sec = "tpl" /\ Goto(NextPartition(part))
    BY <2>1, <2>2, Nexts DEF Goto
  <2>. QED
    BY <1>5, <2>1, <2>2, Moves DEF Goto
<1>6. CASE HostWaited \/ HostSecured \/ HostBl2
  BY <1>6 DEF HostWaited, HostSecured, HostBl2, Goto
<1>7. CASE HostCbw \/ HostPiece
  BY <1>7 DEF HostCbw, HostPiece, Goto
<1>8. CASE HostDataOut \/ HostBlock \/ HostWritten
  BY <1>8 DEF HostDataOut, HostBlock, HostWritten, Goto
<1>9. CASE HostVerified
  BY <1>9, Nexts DEF HostVerified, Goto
<1>. QED
  BY <1>1, <1>2, <1>3, <1>4, <1>5, <1>6, <1>7, <1>8, <1>9 DEF Next, HostNext

\* The script of a section depends on nothing else.
LEMMA SameScript ==
  ASSUME UNCHANGED <<setup, sec, secure, buf, sum, part>>
  PROVE Script' = Script /\ (ip' = ip => Row' = Row)
<1>1. Script' = Script
  BY DEF Script, SecureScript, RomScript, Bl2Script, PieceScript, TplScript, OemMwrite,
         ChipInfo, Identify, Getvar, Cmd, Burnsteps, OemSetvar, TplSlice, TplItem, Slice,
         DdrItem, PieceLength, MinOf
<1>. QED
  BY <1>1 DEF Row

\* The device has no say in what board and image it is.
LEMMA DevFrame ==
  ASSUME DevNext
  PROVE UNCHANGED setup
BY DEF DevNext, DevStep, DevIdentify, DevGetvar, DevSetvar, DevBurnsteps, DevDownload,
       DevImage, DevBoot, DevCbw, DevSum, DevDiskInitial, DevOemMwrite, DevMwrite, DevBlock,
       DevVerify, DevVerified, DevInfo, DevReboot, DevLeave, DevAppear, DevRefuse, DevReject,
       DevCrash, DevCorrupt, DevMisstore, Rejected, Take

\* A command that is turned away is taken and answered FAIL.
LEMMA RejectedReply ==
  ASSUME Rejected
  PROVE /\ out # <<>> /\ inn = <<>> /\ out' = <<>> /\ mode' = "cmd"
        /\ inn' # <<>> /\ inn'[1].header = "FAIL"
        /\ UNCHANGED <<setup, dstage, addr, bootTo, burnsteps, storage>>
BY DEF Rejected, Plain, Reply

\* Every step keeps commands and replies alternating.
LEMMA FlightNext ==
  ASSUME IInv, Next
  PROVE FlightInv'
<1>. USE DEF IInv, FlightInv
<1>1. CASE HostSend
  <2>1. Script' = Script /\ Row' = Row
    BY <1>1, SameScript DEF HostSend
  <2>. QED
    BY <1>1, <2>1 DEF HostSend, Write
<1>2. CASE HostReceive
  <2>1. inn[1].header # "FAIL"
    BY <1>2, Rows DEF HostReceive, Expected
  <2>. QED
    BY <1>2, <2>1 DEF HostReceive
<1>3. CASE HostBusy
  <2>1. Script' = Script /\ Row' = Row
    BY <1>3, SameScript DEF HostBusy
  <2>. QED
    BY <1>3, <2>1 DEF HostBusy
<1>4. CASE HostUnexpected \/ HostUsbError
  BY <1>4 DEF HostUnexpected, HostUsbError, Fail, Goto

<1>5. CASE HostFind \/ HostProbed \/ HostWaited \/ HostSecured \/ HostBl2
  BY <1>5, Lengths DEF HostFind, HostProbed, HostWaited, HostSecured, HostBl2, SectionOver, Local, Goto
<1>6. CASE HostNextSection
  <2>1. out = <<>> /\ ~awaiting
    BY <1>6, Moves, Lengths DEF HostNextSection, SectionOver
  <2>2. out' = <<>> /\ ~awaiting' /\ ip' = 1 /\ inn' = inn
    BY <1>6, <2>1 DEF HostNextSection, Local, Goto
  <2>3. sec # "failed"
    BY <1>6, Moves
  <2>. QED
    BY <2>1, <2>2, <2>3
<1>7. CASE HostCbw \/ HostPiece \/ HostDataOut \/ HostWritten \/ HostVerified
  BY <1>7 DEF HostCbw, HostPiece, HostDataOut, HostWritten, HostVerified, SectionOver,
              Local, Goto
<1>8. CASE HostBlock
  BY <1>8, Lengths DEF HostBlock, Write, Goto
<1>9. CASE DevNext /\ UNCHANGED hostVars
  <2>1. Script' = Script /\ Row' = Row
    <3>1. UNCHANGED setup
      BY <1>9, DevFrame
    <3>. QED
      BY <1>9, <3>1, SameScript DEF hostVars
  <2>2. CASE DevIdentify \/ DevGetvar \/ DevSetvar \/ DevBurnsteps \/ DevDownload
    BY <1>9, <2>1, <2>2 DEF DevIdentify, DevGetvar, DevSetvar, DevBurnsteps, DevDownload,
                            Take, Plain, Reply, hostVars
  <2>3. CASE DevImage
    BY <1>9, <2>1, <2>3 DEF DevImage, Take, Plain, Reply, hostVars, ModeInv, InPart
  <2>4. CASE DevBoot \/ DevCbw \/ DevSum \/ DevDiskInitial \/ DevOemMwrite
    BY <1>9, <2>1, <2>4 DEF DevBoot, DevCbw, DevSum, DevDiskInitial, DevOemMwrite,
                            Take, Plain, Reply, hostVars
  <2>5. CASE DevMwrite \/ DevReboot
    BY <1>9, <2>1, <2>5 DEF DevMwrite, DevReboot, Take, Plain, Reply, hostVars
  <2>6. CASE DevBlock \/ DevVerify
    BY <1>9, <2>1, <2>6 DEF DevBlock, DevVerify, Take, hostVars
  <2>7. CASE DevVerified \/ DevInfo
    BY <1>9, <2>1, <2>7 DEF DevVerified, DevInfo, devVars, Plain, Reply, hostVars, ModeInv
  <2>8. CASE DevLeave \/ DevAppear \/ DevCrash \/ DevCorrupt \/ DevMisstore
    BY <1>9, <2>1, <2>8 DEF DevLeave, DevAppear, DevCrash, DevCorrupt, DevMisstore, hostVars
  <2>9. CASE DevReject \/ DevRefuse
    <3>1. out' = <<>> /\ inn' # <<>> /\ inn'[1].header = "FAIL"
      BY <2>9, RejectedReply DEF DevReject, DevRefuse
    <3>. QED
      BY <1>9, <2>1, <3>1 DEF hostVars
  <2>. QED
    BY <1>9, <2>2, <2>3, <2>4, <2>5, <2>6, <2>7, <2>8, <2>9 DEF DevNext, DevStep
<1>. QED
  BY <1>1, <1>2, <1>3, <1>4, <1>5, <1>6, <1>7, <1>8, <1>9 DEF Next, HostNext

\* Which packets are taken in which mode and stage.
LEMMA Taken ==
  ASSUME NEW op \in Understood, ModeInv, dstage # "OFF"
  PROVE /\ op = "steps" => mode = "burnsteps"
        /\ op = "sum" => mode = "checksum"
        /\ op = "data" => mode \in {"image", "blocks"}
        /\ op \in {"identify", "getvar", "setvar", "download", "boot", "cbw"} => mode = "cmd"
        /\ op \in {"getvar", "setvar", "download", "boot", "cbw"} => dstage \in {"ROM", "SPL"}
        /\ op = "cbw" => dstage = "SPL"
        /\ op \in {"oem setvar", "oem disk_initial", "oem mwrite", "mwrite", "oem verify",
                   "reboot", "reboot-romusb"} => mode = "cmd" /\ dstage = "TPL"
<1>1. CASE mode # "cmd"
  <2>1. /\ mode = "burnsteps" => Understood = {"steps"}
        /\ mode = "checksum" => Understood = {"sum"}
        /\ mode \in {"image", "blocks"} => Understood = {"data"}
        /\ mode = "verifying" => Understood = {}
    BY Zenon, <1>1 DEF Understood
  <2>. QED
    BY <1>1, <2>1 DEF ModeInv
<1>2. CASE mode = "cmd"
  <2>1. Understood = Commands
    BY Zenon, <1>2 DEF Understood
  <2>2. /\ dstage = "ROM" => Commands = {"identify", "getvar", "setvar", "download", "boot"}
        /\ dstage = "SPL" => Commands = {"identify", "getvar", "setvar", "download", "cbw"}
        /\ dstage = "TPL" => Commands = {"identify", "oem setvar", "oem disk_initial",
                                         "oem mwrite", "mwrite", "oem verify", "reboot",
                                         "reboot-romusb"}
    BY Zenon DEF Commands
  <2>. QED
    BY <1>2, <2>1, <2>2 DEF ModeInv
<1>. QED
  BY <1>1, <1>2

\* Between two sections nothing is in flight but an answer nobody reads, and
\* the device does nothing.
Moving ==
  \/ HostFind \/ HostProbed \/ HostNextSection \/ HostWaited \/ HostSecured \/ HostBl2
  \/ HostCbw \/ HostPiece \/ HostWritten \/ HostVerified

\* Moving on is done between two commands and touches no device.
LEMMA MovingIsLocal ==
  ASSUME IInv, Moving
  PROVE /\ out = <<>> /\ ~awaiting /\ (inn # <<>> => inn[1].header = "FAIL")
        /\ UNCHANGED <<setup, devVars, out, inn, faults, awaiting>>
        /\ sec # "failed" /\ ip' = 1
<1>1. sec \notin {"blocks", "failed"} /\ ~awaiting /\ ~(sec = "tplSum" /\ ip = 1)
  <2>1. CASE HostFind \/ HostWaited
    BY <2>1, Lengths DEF HostFind, HostWaited, IInv, FlightInv
  <2>2. CASE HostNextSection
    <3>1. ~awaiting /\ ip > Len(Script)
      BY <2>2 DEF HostNextSection, SectionOver
    <3>2. sec \notin {"blocks", "failed"}
      BY <2>2, Moves
    <3>. QED
      BY <3>1, <3>2, Lengths
  <2>3. CASE HostProbed \/ HostSecured \/ HostBl2 \/ HostCbw
    BY <2>3 DEF HostProbed, HostSecured, HostBl2, HostCbw, SectionOver
  <2>4. CASE HostPiece \/ HostWritten \/ HostVerified
    BY <2>4 DEF HostPiece, HostWritten, HostVerified, SectionOver
  <2>. QED
    BY <2>1, <2>2, <2>3, <2>4 DEF Moving
<1>2. out = <<>> /\ (inn # <<>> => inn[1].header = "FAIL")
  BY <1>1 DEF IInv, FlightInv
<1>3. UNCHANGED <<setup, devVars, out, inn, faults, awaiting>> /\ ip' = 1
  <2>1. CASE HostFind \/ HostProbed \/ HostNextSection \/ HostWaited \/ HostSecured
    BY <2>1 DEF HostFind, HostProbed, HostNextSection, HostWaited, HostSecured, Local, Goto
  <2>2. CASE HostBl2 \/ HostCbw \/ HostPiece \/ HostWritten \/ HostVerified
    BY <2>2 DEF HostBl2, HostCbw, HostPiece, HostWritten, HostVerified, Local, Goto
  <2>. QED
    BY <2>1, <2>2 DEF Moving
<1>. QED
  BY <1>1, <1>2, <1>3

\* The host leaves the device alone.
LEMMA HostFrame ==
  ASSUME HostNext
  PROVE UNCHANGED <<setup, devVars>>
BY DEF HostNext, HostSend, HostReceive, HostUnexpected, HostFind, HostProbed,
       HostNextSection, HostWaited, HostSecured, HostBl2, HostCbw, HostPiece, HostDataOut,
       HostBlock, HostWritten, HostBusy, HostVerified, HostUsbError, Local

\* The device takes a packet or leaves it, and the current partition, alone.
LEMMA DevOut ==
  ASSUME DevNext
  PROVE out' = <<>> \/ UNCHANGED <<out, cur>>
BY DEF DevNext, DevStep, DevIdentify, DevGetvar, DevSetvar, DevBurnsteps, DevDownload,
       DevImage, DevBoot, DevCbw, DevSum, DevDiskInitial, DevOemMwrite, DevMwrite, DevBlock,
       DevVerify, DevVerified, DevInfo, DevReboot, DevLeave, DevAppear, DevRefuse, DevReject,
       DevCrash, DevCorrupt, DevMisstore, Rejected, Take, devVars, storage

\* Blocks are sent without waiting.
LEMMA SendingBlocks ==
  ASSUME FlightInv, sec = "blocks"
  PROVE ~awaiting /\ (out # <<>> => out[1].op = "data")
<1>1. Len(Script) = 0
  BY Lengths
<1>2. ~awaiting
  BY <1>1 DEF FlightInv
<1>. QED
  BY <1>2 DEF FlightInv

\* The partition a section is about.
LEMMA PartFacts ==
  ASSUME SectionInv, CurInv
  PROVE /\ part \in Nat \ {0}
        /\ sec = "tpl" => part = 1
        /\ sec \in InPart => part \in Parts
        /\ sec \in InPart \ {"oem"} => cur = part
BY DEF SectionInv, CurInv, BeforeParts, Parts

\* Every step keeps what the packet in flight says true.
LEMMA PacketNext ==
  ASSUME IInv, Next
  PROVE PacketInv'
<1>. USE DEF PacketInv, Pending
<1>0. SectionInv /\ FlightInv /\ PacketInv /\ CurInv
  BY DEF IInv
<1>1. CASE HostSend
  <2>1. /\ out'[1].op = Row.op /\ out'[1].arg = Row.arg
        /\ ip \in Nat \ {0} /\ ip <= Len(Script)
        /\ UNCHANGED <<sec, part, cur>>
    BY <1>0, <1>1 DEF HostSend, Write, FlightInv, devVars, storage
  <2>2. /\ Row.op = "setvar" => Row.arg.name \in {"burnsteps", "checksum"}
        /\ Row.op = "oem disk_initial" => sec = "tpl"
        /\ Row.op = "oem mwrite" => sec = "oem" /\ Row.arg.part = part
        /\ Row.op = "mwrite" => sec = "mwrite"
        /\ Row.op = "oem verify" => sec = "verify"
        /\ Row.op = "download" => sec \in {"rom", "piece"}
    BY <1>0, <2>1, Rows
  <2>3. /\ sec = "tpl" => part = 1
        /\ sec = "oem" => part \in Parts
        /\ sec = "mwrite" => cur = part
    BY <1>0, PartFacts DEF InPart
  <2>. QED
    BY <2>1, <2>2, <2>3
<1>2. CASE HostReceive \/ HostBusy
  BY <1>0, <1>2 DEF HostReceive, HostBusy, devVars, storage
<1>3. CASE HostUnexpected \/ HostUsbError
  BY <1>0, <1>3 DEF HostUnexpected, HostUsbError, Fail, Goto, devVars, storage
<1>4. CASE Moving
  BY <1>0, <1>4, MovingIsLocal
<1>5. CASE HostDataOut
  BY <1>0, <1>5 DEF HostDataOut, FlightInv
<1>6. CASE HostBlock
  <2>1. out # <<>> => out[1].op = "data"
    BY <1>0, <1>6, SendingBlocks DEF HostBlock
  <2>2. \/ out' # <<>> /\ out'[1].op = "data"
        \/ UNCHANGED out
    BY <1>6 DEF HostBlock, Write
  <2>. QED
    BY <2>1, <2>2
<1>7. CASE DevNext /\ UNCHANGED hostVars
  BY <1>0, <1>7, DevOut DEF hostVars
<1>. QED
  BY <1>1, <1>2, <1>3, <1>4, <1>5, <1>6, <1>7 DEF Next, HostNext, Moving

\* The TPL's sections are reached by way of the SPL's last answer.
LEMMA ReachTpl ==
  ASSUME IInv, Moving, sec' \in {"waitTpl", "tpl"} \cup InPart
  PROVE sec \in {"waitTpl", "tpl"} \cup InPart \/ (sec = "cbw" /\ ip # 1)
<1>. USE DEF InPart
<1>1. CASE HostFind \/ HostProbed \/ HostSecured \/ HostBl2
  BY <1>1 DEF HostFind, HostProbed, HostSecured, HostBl2, Goto
<1>2. CASE HostNextSection
  BY <1>2, Moves DEF Goto
<1>3. CASE HostCbw
  BY <1>3, Lengths DEF HostCbw, SectionOver
<1>4. CASE HostWaited \/ HostPiece \/ HostWritten \/ HostVerified
  BY <1>4 DEF HostWaited, HostPiece, HostWritten, HostVerified, Goto
<1>. QED
  BY <1>1, <1>2, <1>3, <1>4 DEF Moving

\* What a step of the device makes of the next packet.
LEMMA DevModes ==
  ASSUME IInv, DevNext, UNCHANGED hostVars
  PROVE ModeInv'
<1>0. FlightInv /\ PacketInv /\ ModeInv
  BY DEF IInv
<1>. USE DEF ModeInv
<1>1. CASE DevIdentify \/ DevGetvar \/ DevBurnsteps \/ DevCbw \/ DevSum
  <2>1. UNCHANGED dstage /\ dstage # "OFF" /\ mode # "image" /\ mode' \in {mode, "cmd"}
        /\ bootTo' \in {bootTo, "TPL"} /\ out' = <<>>
    BY <1>0, <1>1, Taken DEF DevIdentify, DevGetvar, DevBurnsteps, DevCbw, DevSum, Take
  <2>. QED
    BY <1>0, <2>1 DEF hostVars
<1>2. CASE DevSetvar
  <2>1. UNCHANGED <<dstage, bootTo>> /\ dstage # "OFF"
        /\ mode' \in {"burnsteps", "checksum"}
    BY <1>0, <1>2 DEF DevSetvar, Take, Arg, PacketInv, Pending
  <2>. QED
    BY <1>0, <2>1
<1>3. CASE DevDownload
  <2>1. UNCHANGED <<dstage, bootTo>> /\ dstage # "OFF" /\ mode' = "image"
        /\ sec \in {"rom", "piece", "failed"}
    BY <1>0, <1>3 DEF DevDownload, Take, PacketInv, Pending
  <2>. QED
    BY <1>0, <2>1 DEF hostVars, InPart
<1>4. CASE DevImage \/ DevBlock
  <2>1. UNCHANGED <<dstage, bootTo>> /\ dstage # "OFF"
        /\ mode' \in {"cmd", "checksum", "blocks"}
    BY <1>0, <1>4 DEF DevImage, DevBlock, Take
  <2>. QED
    BY <1>0, <2>1
<1>5. CASE DevBoot
  <2>1. UNCHANGED <<bootTo, mode>> /\ dstage' \in {"SPL", "ROM"} /\ mode = "cmd"
    BY <1>0, <1>5, Taken DEF DevBoot, Take
  <2>. QED
    BY <1>0, <2>1
<1>6. CASE DevDiskInitial \/ DevOemMwrite \/ DevMwrite \/ DevReboot
  <2>1. UNCHANGED dstage /\ dstage # "OFF" /\ mode' \in {"cmd", "blocks"}
        /\ bootTo' \in {bootTo, "OFF", "ROM"}
    BY <1>0, <1>6, Taken DEF DevDiskInitial, DevOemMwrite, DevMwrite, DevReboot, Take
  <2>. QED
    BY <1>0, <2>1
<1>7. CASE DevVerify
  <2>1. UNCHANGED <<dstage, bootTo>> /\ dstage # "OFF" /\ mode' = "verifying" /\ out' = <<>>
        /\ out # <<>> /\ out[1].op = "oem verify"
    BY <1>7 DEF DevVerify, Take
  <2>2. sec = "failed" \/ (sec = "verify" /\ awaiting)
    BY <1>0, <2>1 DEF FlightInv, PacketInv, Pending
  <2>. QED
    BY <1>0, <2>1, <2>2 DEF hostVars
<1>8. CASE DevInfo \/ DevVerified
  <2>1. UNCHANGED <<dstage, bootTo, out>> /\ dstage = "TPL" /\ mode = "verifying"
        /\ mode' \in {"verifying", "cmd"}
    BY <1>8 DEF DevInfo, DevVerified, devVars
  <2>. QED
    BY <1>0, <2>1 DEF hostVars
<1>9. CASE DevLeave \/ DevCrash \/ DevReject \/ DevRefuse
  <2>1. mode' = "cmd" /\ dstage' \in {"OFF", dstage} /\ bootTo' \in {bootTo, "ROM"}
    BY <1>9, RejectedReply DEF DevLeave, DevCrash, DevReject, DevRefuse
  <2>. QED
    BY <1>0, <2>1
<1>10. CASE DevAppear
  <2>1. mode' = mode /\ mode = "cmd" /\ dstage' \in {"ROM", "TPL"} /\ bootTo' = "stay"
    BY <1>0, <1>10 DEF DevAppear
  <2>. QED
    BY <1>0, <2>1
<1>11. CASE DevCorrupt \/ DevMisstore
  BY <1>0, <1>11 DEF DevCorrupt, DevMisstore, hostVars, Replied
<1>. QED
  BY <1>1, <1>2, <1>3, <1>4, <1>5, <1>6, <1>7, <1>8, <1>9, <1>10, <1>11 DEF DevNext, DevStep

\* Every step keeps the mode of the device in step with the host.
LEMMA ModeNext ==
  ASSUME IInv, Next
  PROVE ModeInv'
<1>0. SectionInv /\ FlightInv /\ PacketInv /\ ModeInv /\ VerdictInv
  BY DEF IInv
<1>. USE DEF ModeInv, Replied
<1>1. CASE HostSend
  <2>1. /\ UNCHANGED <<dstage, bootTo, mode, sec, ip, inn>> /\ ip <= Len(Script)
        /\ ~awaiting
    BY <1>1 DEF HostSend, devVars
  <2>2. mode # "verifying" \/ sec = "failed"
    BY <1>0, <2>1
  <2>. QED
    BY <1>0, <2>1, <2>2
<1>2. CASE HostReceive
  <2>1. /\ UNCHANGED <<dstage, bootTo, mode, sec, out>> /\ inn' = <<>> /\ awaiting
        /\ inn # <<>> /\ inn[1].header = Row.expect /\ ip <= Len(Script)
    BY <1>0, <1>2 DEF HostReceive, Expected, devVars, FlightInv
  <2>2. /\ sec = "verify" => Row.expect = "OKAY"
        /\ sec = "cbw" => Row.expect = "OKAY"
    BY <1>0, <2>1, Rows DEF FlightInv
  <2>3. sec = "verify" => mode = "cmd"
    BY <1>0, <2>1, <2>2 DEF VerdictInv
  <2>4. sec = "cbw" => mode # "image"
    BY <1>0, <2>1, <2>2
  <2>. QED
    BY <1>0, <2>1, <2>3, <2>4
<1>3. CASE HostUnexpected \/ HostUsbError
  BY <1>0, <1>3 DEF HostUnexpected, HostUsbError, Fail, Goto, devVars, InPart
<1>4. CASE HostBusy
  BY <1>0, <1>4 DEF HostBusy, devVars
<1>5. CASE Moving
  <2>1. UNCHANGED <<dstage, bootTo, mode, out, inn>> /\ ~awaiting /\ sec # "failed"
        /\ ip' = 1 /\ (inn # <<>> => inn[1].header = "FAIL")
    BY <1>5, MovingIsLocal DEF devVars
  <2>2. sec' \in {"waitTpl", "tpl"} \cup InPart =>
          sec \in {"waitTpl", "tpl"} \cup InPart \/ (sec = "cbw" /\ ip # 1)
    BY <1>5, ReachTpl
  <2>. QED
    BY <1>0, <2>1, <2>2
<1>6. CASE HostDataOut
  BY <1>0, <1>6 DEF HostDataOut, FlightInv, Goto, devVars, InPart
<1>7. CASE HostBlock
  BY <1>0, <1>7, SendingBlocks DEF HostBlock, Goto, devVars, InPart
<1>8. CASE DevNext /\ UNCHANGED hostVars
  BY <1>0, <1>8, DevModes DEF hostVars
<1>. QED
  BY <1>1, <1>2, <1>3, <1>4, <1>5, <1>6, <1>7, <1>8 DEF Next, HostNext, Moving

----------------------------------------------------------------------------
(* What happens to the storage. *)

Storage == [Parts -> [0 .. PartSize - 1 -> {"old", "erased", "good", "bad"}]]

\* A step writes places of the partition being burnt, and no others.
WritesPart ==
  /\ cur = part /\ part \in Parts
  /\ \A p \in Parts \ {part} : flash'[p] = flash[p]
  /\ \A o \in 0 .. PartSize - 1 : flash'[part][o] \in {flash[part][o], "good", "bad"}

\* A checksum that matches writes the partition being burnt.
LEMMA CommitWrites ==
  ASSUME IInv, DevSum
  PROVE UNCHANGED flash \/ (flash' \in Storage /\ WritesPart /\ out # <<>>)
<1>0. ModeInv /\ CurInv /\ SectionInv
  BY DEF IInv
<1>1. CASE UNCHANGED flash
  BY <1>1
<1>2. CASE ~UNCHANGED flash
  <2>1. dstage \notin {"ROM", "OFF", "SPL"} /\ mode = "checksum" /\ out # <<>> /\ Commit
    BY <1>0, <1>2, Taken DEF DevSum, Commit, Take
  <2>2. cur = part /\ part \in Parts /\ flash \in Storage
    BY <1>0, <2>1 DEF ModeInv, CurInv, SectionInv, Parts, Storage
  <2>. DEFINE chunk == [o \in DOMAIN flash[cur] |->
                          IF o \notin ChunkPlace THEN flash[cur][o]
                          ELSE IF rcvd[o - req.offs + 1] = <<PartItem(cur), o>> THEN "good"
                          ELSE "bad"]
  <2>3. flash' = [flash EXCEPT ![cur] = chunk]
    BY <2>1 DEF Commit
  <2>4. DOMAIN flash[cur] = 0 .. PartSize - 1
    BY <2>2 DEF Storage
  <2>5. /\ chunk \in [0 .. PartSize - 1 -> {"old", "erased", "good", "bad"}]
        /\ \A o \in 0 .. PartSize - 1 : chunk[o] \in {flash[cur][o], "good", "bad"}
    BY <2>2, <2>4 DEF Storage
  <2>. HIDE DEF chunk
  <2>. QED
    BY <2>1, <2>2, <2>3, <2>5 DEF Storage, WritesPart
<1>. QED
  BY <1>1, <1>2

\* A byte stored wrongly is one of the partition being burnt.
LEMMA MisstoreWrites ==
  ASSUME IInv, DevMisstore
  PROVE flash' \in Storage /\ WritesPart /\ written # {} /\ mode # "verifying"
<1>0. CurInv /\ SectionInv
  BY DEF IInv
<1>1. PICK o \in written : flash' = [flash EXCEPT ![cur][o] = "bad"]
  BY DEF DevMisstore
<1>2. cur = part /\ part \in Parts /\ flash \in Storage
  BY <1>0, <1>1 DEF CurInv, SectionInv, Parts, Storage
<1>3. mode # "verifying"
  BY <1>1 DEF DevMisstore
<1>4. flash' \in Storage /\ WritesPart
  BY <1>1, <1>2 DEF Storage, WritesPart
<1>. QED
  BY <1>1, <1>3, <1>4

\* oem disk_initial erases every partition, or nothing.
LEMMA DiskInitialWrites ==
  ASSUME IInv, DevDiskInitial
  PROVE \/ UNCHANGED flash
        \/ /\ flash' = [p \in Parts |-> [o \in 0 .. PartSize - 1 |-> "erased"]]
           /\ flash' \in Storage
<1>1. flash \in Storage
  BY DEF IInv, CurInv, Storage
<1>2. CASE flash' = [p \in Parts |-> [o \in DOMAIN flash[p] |-> "erased"]]
  BY <1>1, <1>2 DEF Storage
<1>. QED
  BY <1>2 DEF DevDiskInitial

\* No other step touches the storage.
LEMMA StorageSteps ==
  ASSUME Next, ~DevSum, ~DevMisstore, ~DevDiskInitial
  PROVE UNCHANGED flash
<1>1. CASE HostNext
  BY <1>1, HostFrame DEF devVars, storage
<1>2. CASE DevNext
  BY <1>2 DEF DevNext, DevStep, DevIdentify, DevGetvar, DevSetvar, DevBurnsteps,
     DevDownload, DevImage, DevBoot, DevCbw, DevOemMwrite, DevMwrite, DevBlock,
     DevVerify, DevVerified, DevInfo, DevReboot, DevLeave, DevAppear, DevRefuse, DevReject,
     DevCrash, DevCorrupt, Rejected, devVars, storage
<1>. QED
  BY <1>1, <1>2 DEF Next

----------------------------------------------------------------------------
(* The partition in hand, and the verdict. *)

\* In these sections only one command can be answered.
LEMMA Answers ==
  ASSUME IInv, DevNext, sec \in {"oem", "verify"}
  PROVE \/ UNCHANGED inn \/ inn' = <<>> \/ inn'[1].header \in {"FAIL", "INFO"}
        \/ sec = "oem" /\ DevOemMwrite
        \/ sec = "verify" /\ DevVerified
<1>0. SectionInv /\ FlightInv /\ ModeInv
  BY DEF IInv
<1>1. out # <<>> => out[1].op = IF sec = "oem" THEN "oem mwrite" ELSE "oem verify"
  <2>1. out # <<>> => awaiting /\ out[1].op = Row.op
    BY <1>0 DEF FlightInv
  <2>2. awaiting => ip \in Nat \ {0} /\ ip <= Len(Script)
    BY <1>0 DEF FlightInv
  <2>3. awaiting => /\ sec = "oem" => Row.op = "oem mwrite"
                    /\ sec = "verify" => Row.op = "oem verify"
    BY <1>0, <2>2, Rows
  <2>. QED
    BY <2>1, <2>3
<1>2. CASE DevIdentify \/ DevGetvar \/ DevSetvar \/ DevBurnsteps \/ DevDownload
  BY <1>1, <1>2 DEF DevIdentify, DevGetvar, DevSetvar, DevBurnsteps, DevDownload, Take
<1>3. CASE DevImage \/ DevBoot \/ DevCbw \/ DevSum \/ DevDiskInitial \/ DevMwrite
  BY <1>1, <1>3 DEF DevImage, DevBoot, DevCbw, DevSum, DevDiskInitial, DevMwrite, Take
<1>4. CASE DevReboot \/ DevBlock
  BY <1>1, <1>4 DEF DevReboot, DevBlock, Take
<1>5. CASE DevOemMwrite
  BY <1>1, <1>5 DEF DevOemMwrite, Take
<1>6. CASE DevVerified
  BY <1>0, <1>6 DEF DevVerified, ModeInv
<1>7. CASE DevInfo
  BY <1>7 DEF DevInfo, Plain, Reply
<1>8. CASE DevReject \/ DevRefuse
  BY <1>8, RejectedReply DEF DevReject, DevRefuse
<1>9. CASE DevVerify \/ DevLeave \/ DevAppear \/ DevCrash \/ DevCorrupt \/ DevMisstore
  BY <1>9 DEF DevVerify, DevLeave, DevAppear, DevCrash, DevCorrupt, DevMisstore
<1>. QED
  BY <1>2, <1>3, <1>4, <1>5, <1>6, <1>7, <1>8, <1>9 DEF DevNext, DevStep

\* oem mwrite selects the partition the host burns.
LEMMA OemMwriteCur ==
  ASSUME IInv, DevOemMwrite
  PROVE cur' = part /\ part \in Parts /\ mode' = "cmd" /\ written' = {}
<1>1. PacketInv /\ ModeInv
  BY DEF IInv
<1>. QED
  BY <1>1, Taken DEF DevOemMwrite, Take, Arg, PacketInv, Pending

\* Every step of the device keeps it at the partition in hand.
LEMMA DevCur ==
  ASSUME IInv, DevNext, UNCHANGED hostVars
  PROVE /\ cur' \in {cur, part} /\ cur' \in 0 .. NumParts
        /\ written' # {} \/ mode' = "blocks" \/ (mode' = "checksum" /\ dstage' = "TPL")
             => cur' = part
<1>0. FlightInv /\ PacketInv /\ ModeInv /\ CurInv
  BY DEF IInv
<1>. USE DEF CurInv
<1>1. CASE DevOemMwrite
  BY <1>1, OemMwriteCur DEF Parts
<1>2. CASE DevMwrite
  BY <1>0, <1>2 DEF DevMwrite, Take, PacketInv, Pending, storage
<1>3. CASE DevBlock
  <2>1. mode = "blocks" /\ UNCHANGED cur
    BY <1>3 DEF DevBlock
  <2>. QED
    BY <1>0, <2>1 DEF DevBlock
<1>4. CASE DevSum
  <2>1. mode = "checksum" /\ mode' = "cmd" /\ UNCHANGED <<cur, dstage>>
    BY <1>0, <1>4, Taken DEF DevSum, Take
  <2>2. dstage = "TPL" \/ UNCHANGED written
    BY <1>0, <1>4 DEF DevSum, Commit, Take, ModeInv
  <2>. QED
    BY <1>0, <2>1, <2>2
<1>5. CASE DevSetvar \/ DevBoot
  <2>1. UNCHANGED <<cur, written>> /\ mode = "cmd" /\ dstage' \in {"ROM", "SPL"}
        /\ mode' # "blocks"
    BY <1>0, <1>5, Taken DEF DevSetvar, DevBoot, Take, Arg, PacketInv, Pending, storage
  <2>. QED
    BY <1>0, <2>1
<1>6. CASE DevIdentify \/ DevGetvar \/ DevBurnsteps \/ DevDownload \/ DevImage
  BY <1>0, <1>6 DEF DevIdentify, DevGetvar, DevBurnsteps, DevDownload, DevImage, storage
<1>7. CASE DevCbw \/ DevDiskInitial \/ DevVerify \/ DevVerified \/ DevReboot
  BY <1>0, <1>7 DEF DevCbw, DevDiskInitial, DevVerify, DevVerified, DevReboot, storage
<1>8. CASE DevLeave \/ DevCrash \/ DevReject \/ DevRefuse
  BY <1>0, <1>8, RejectedReply DEF DevLeave, DevCrash, DevReject, DevRefuse, storage
<1>9. CASE DevAppear
  BY <1>0, <1>9 DEF DevAppear, ModeInv, storage
<1>10. CASE DevInfo \/ DevCorrupt \/ DevMisstore
  BY <1>0, <1>10 DEF DevInfo, DevCorrupt, DevMisstore, devVars, storage
<1>. QED
  BY <1>1, <1>2, <1>3, <1>4, <1>5, <1>6, <1>7, <1>8, <1>9, <1>10 DEF DevNext, DevStep

\* Every step leaves the flash in its type.
LEMMA StorageType ==
  ASSUME IInv, Next
  PROVE flash' \in Storage
<1>1. flash \in Storage
  BY DEF IInv, CurInv, Storage
<1>. QED
  BY <1>1, CommitWrites, MisstoreWrites, DiskInitialWrites, StorageSteps

\* From one section to the next the partition in hand stays the device's.
LEMMA MovingCur ==
  ASSUME IInv, Moving
  PROVE /\ sec' \in InPart \ {"oem"} => cur = part /\ UNCHANGED part
        /\ UNCHANGED part \/ (written = {} /\ mode = "cmd" /\ sec = "verify" /\ part' = part + 1
                                /\ part < part' /\ Intact(part))
<1>0. SectionInv /\ CurInv /\ VerdictInv
  BY DEF IInv
<1>1. CASE HostFind \/ HostProbed \/ HostWaited \/ HostSecured \/ HostBl2
  BY <1>1 DEF HostFind, HostProbed, HostWaited, HostSecured, HostBl2, Goto, InPart
<1>2. CASE HostCbw \/ HostPiece
  BY <1>2 DEF HostCbw, HostPiece, Goto, InPart
<1>3. CASE HostNextSection
  <2>1. UNCHANGED part /\ ip > Len(Script)
    BY <1>3 DEF HostNextSection, SectionOver
  <2>2. sec = "oem" => ip > 1
    BY <2>1, Lengths
  <2>3. sec = "tpl" => sec' \notin InPart \ {"oem"}
    BY <1>3, Moves, Nexts DEF Goto, InPart
  <2>4. sec' \in InPart \ {"oem"} => sec \in {"oem", "tplSum"}
    BY <1>3, <2>3, Moves DEF Goto, InPart
  <2>. QED
    BY <1>0, <2>1, <2>2, <2>4 DEF CurInv, InPart
<1>4. CASE HostWritten
  BY <1>0, <1>4 DEF HostWritten, Goto, InPart, CurInv
<1>5. CASE HostVerified
  <2>1. sec = "verify" /\ ip > 1 /\ part' = part + 1
    BY <1>5, Lengths DEF HostVerified, SectionOver
  <2>2. sec' \notin InPart \ {"oem"}
    BY <1>0, <1>5, Nexts DEF HostVerified, Goto, InPart, SectionInv
  <2>. QED
    BY <1>0, <2>1, <2>2 DEF VerdictInv, SectionInv
<1>. QED
  BY <1>1, <1>2, <1>3, <1>4, <1>5 DEF Moving

\* Every step keeps the device at the partition the host burns.
LEMMA CurNext ==
  ASSUME IInv, Next
  PROVE CurInv'
<1>0. SectionInv /\ FlightInv /\ CurInv
  BY DEF IInv
<1>. USE DEF CurInv
<1>1. flash' \in [Parts -> [0 .. PartSize - 1 -> {"old", "erased", "good", "bad"}]]
  BY StorageType DEF Storage
<1>2. CASE HostSend \/ HostBusy
  <2>1. UNCHANGED <<devVars, sec, part, ip>> /\ inn' \in {inn, <<>>}
    BY <1>2 DEF HostSend, HostBusy
  <2>. QED
    BY <1>0, <1>1, <2>1 DEF devVars, storage, Replied
<1>3. CASE HostReceive
  <2>1. /\ UNCHANGED <<devVars, sec, part>> /\ inn' = <<>> /\ awaiting
        /\ inn # <<>> /\ inn[1].header = Row.expect /\ ip <= Len(Script)
    BY <1>0, <1>3 DEF HostReceive, Expected, FlightInv
  <2>2. sec = "oem" => Replied("OKAY")
    BY <1>0, <2>1, Rows DEF FlightInv, Replied
  <2>. QED
    BY <1>0, <1>1, <2>1, <2>2 DEF devVars, storage
<1>4. CASE HostUnexpected \/ HostUsbError
  BY <1>0, <1>1, <1>4 DEF HostUnexpected, HostUsbError, Fail, Goto, InPart, devVars, storage
<1>5. CASE Moving
  <2>1. /\ UNCHANGED <<cur, written, mode, dstage>> /\ ip' = 1
        /\ inn' = inn /\ (inn # <<>> => inn[1].header = "FAIL")
    BY <1>5, MovingIsLocal DEF devVars, storage
  <2>. QED
    BY <1>0, <1>1, <1>5, <2>1, MovingCur DEF Replied
<1>6. CASE HostDataOut \/ HostBlock
  <2>1. /\ UNCHANGED <<devVars, part>> /\ sec \in {"mwrite", "blocks"}
        /\ sec' \in {"blocks", "tplSum"}
    BY <1>6 DEF HostDataOut, HostBlock, Goto
  <2>. QED
    BY <1>0, <1>1, <2>1 DEF InPart, devVars, storage
<1>7. CASE DevNext /\ UNCHANGED hostVars
  <2>1. UNCHANGED <<sec, part, ip>>
    BY <1>7 DEF hostVars
  <2>2. /\ cur' \in {cur, part} /\ cur' \in 0 .. NumParts
        /\ written' # {} \/ mode' = "blocks" \/ (mode' = "checksum" /\ dstage' = "TPL")
             => cur' = part
    BY <1>7, DevCur
  <2>3. sec = "oem" /\ Replied("OKAY")' => cur' = part
    <3>1. CASE UNCHANGED inn
      BY <1>0, <2>2, <3>1 DEF Replied
    <3>. QED
      BY <1>7, <3>1, Answers, OemMwriteCur DEF Replied
  <2>. QED
    BY <1>0, <1>1, <2>1, <2>2, <2>3
<1>. QED
  BY <1>2, <1>3, <1>4, <1>5, <1>6, <1>7 DEF Next, HostNext, Moving

\* Once the verdict is out nothing is in flight that could change it.
LEMMA VerdictNext ==
  ASSUME IInv, Next
  PROVE VerdictInv'
<1>0. SectionInv /\ FlightInv /\ ModeInv /\ CurInv /\ VerdictInv
  BY DEF IInv
<1>. DEFINE Out == ip > 1 \/ Replied("OKAY")
<1>. USE DEF VerdictInv
<1>1. CASE HostSend \/ HostBusy
  <2>1. UNCHANGED <<devVars, sec, part, ip>> /\ inn' \in {inn, <<>>}
    BY <1>1 DEF HostSend, HostBusy
  <2>. QED
    BY <1>0, <2>1 DEF devVars, storage, Replied, Intact
<1>2. CASE HostReceive
  <2>1. /\ UNCHANGED <<devVars, sec, part>> /\ inn' = <<>> /\ awaiting
        /\ inn # <<>> /\ inn[1].header = Row.expect /\ ip <= Len(Script)
    BY <1>0, <1>2 DEF HostReceive, Expected, FlightInv
  <2>2. sec = "verify" => Replied("OKAY")
    BY <1>0, <2>1, Rows DEF FlightInv, Replied
  <2>. QED
    BY <1>0, <2>1, <2>2 DEF devVars, storage, Intact
<1>3. CASE HostUnexpected \/ HostUsbError
  BY <1>3 DEF HostUnexpected, HostUsbError, Fail, Goto
<1>4. CASE Moving
  <2>1. /\ ip' = 1 /\ inn' = inn /\ (inn # <<>> => inn[1].header = "FAIL")
    BY <1>4, MovingIsLocal
  <2>. QED
    BY <2>1 DEF Replied
<1>5. CASE HostDataOut \/ HostBlock
  <2>1. sec' \in {"blocks", "tplSum"}
    BY <1>5 DEF HostDataOut, HostBlock, Goto
  <2>. QED
    BY <2>1
<1>6. CASE DevNext /\ UNCHANGED hostVars
  <2>1. UNCHANGED <<sec, part, ip, awaiting>>
    BY <1>6 DEF hostVars
  <2>2. SUFFICES ASSUME sec = "verify", ip > 1 \/ Replied("OKAY")'
                 PROVE Intact(part)' /\ mode' = "cmd" /\ written' = {}
    BY <2>1
  <2>3. CASE Out
    <3>1. Intact(part) /\ mode = "cmd" /\ written = {}
      BY <1>0, <2>2, <2>3
    <3>2. out = <<>>
      <4>1. ip > 1 => ~awaiting
        BY <1>0, <2>2, Lengths DEF FlightInv
      <4>. QED
        BY <1>0, <2>2, <2>3, <4>1 DEF FlightInv, Replied
    <3>3. DevLeave \/ DevAppear \/ DevCrash \/ DevCorrupt
      <4>1. /\ ~DevIdentify /\ ~DevGetvar /\ ~DevSetvar /\ ~DevBurnsteps /\ ~DevDownload
            /\ ~DevImage /\ ~DevBoot /\ ~DevCbw /\ ~DevSum /\ ~DevDiskInitial
        BY <3>2 DEF DevIdentify, DevGetvar, DevSetvar, DevBurnsteps, DevDownload, DevImage,
                    DevBoot, DevCbw, DevSum, DevDiskInitial, Take
      <4>2. /\ ~DevOemMwrite /\ ~DevMwrite /\ ~DevBlock /\ ~DevVerify /\ ~DevReboot
            /\ ~DevRefuse /\ ~DevReject
        BY <3>2 DEF DevOemMwrite, DevMwrite, DevBlock, DevVerify, DevReboot, DevRefuse,
                    DevReject, Rejected, Take
      <4>3. ~DevVerified /\ ~DevInfo /\ ~DevMisstore
        BY <3>1 DEF DevVerified, DevInfo, DevMisstore
      <4>. QED
        BY <1>6, <4>1, <4>2, <4>3 DEF DevNext, DevStep
    <3>4. UNCHANGED <<flash, written>> /\ mode' = "cmd"
      BY <3>1, <3>3 DEF DevLeave, DevAppear, DevCrash, DevCorrupt, storage
    <3>. QED
      BY <2>1, <3>1, <3>4 DEF Intact
  <2>4. CASE ~Out
    <3>1. ~UNCHANGED inn
      BY <2>2, <2>4 DEF Replied
    <3>2. DevVerified
      BY <1>6, <2>2, <2>4, <3>1, Answers DEF Replied
    <3>3. cur = part /\ UNCHANGED flash
      BY <1>0, <2>2, <3>2 DEF CurInv, InPart, DevVerified
    <3>4. \A o \in DOMAIN flash[cur] : flash[cur][o] = "good"
      BY <2>2, <2>4, <3>2 DEF DevVerified, Plain, Reply, Replied
    <3>5. DOMAIN flash[cur] = 0 .. PartSize - 1
      BY <1>0, <2>2, <3>3 DEF CurInv, SectionInv, InPart, Parts
    <3>. QED
      BY <2>1, <3>2, <3>3, <3>4, <3>5 DEF Intact, DevVerified
  <2>. QED
    BY <2>3, <2>4
<1>. QED
  BY <1>1, <1>2, <1>3, <1>4, <1>5, <1>6 DEF Next, HostNext, Moving

----------------------------------------------------------------------------
(* Before the first partition, after the last. *)

\* What comes before the partitions follows only on what comes before them.
LEMMA MovingEarly ==
  ASSUME IInv, Moving, sec' \in BeforeParts
  PROVE sec \in BeforeParts \ {"tpl"}
<1>. USE DEF BeforeParts
<1>1. CASE HostFind \/ HostProbed \/ HostSecured \/ HostBl2 \/ HostCbw \/ HostPiece
  BY <1>1 DEF HostFind, HostProbed, HostSecured, HostBl2, HostCbw, HostPiece
<1>2. CASE HostNextSection
  BY <1>2, Moves, Nexts DEF Goto, IInv, SectionInv
<1>3. CASE HostWaited \/ HostWritten
  BY <1>3 DEF HostWaited, HostWritten, Goto
<1>4. CASE HostVerified
  BY <1>4, Nexts DEF HostVerified, Goto, IInv, SectionInv, InPart
<1>. QED
  BY <1>1, <1>2, <1>3, <1>4 DEF Moving

\* Only oem mwrite selects a partition.
LEMMA CurSteps ==
  ASSUME DevNext, ~DevOemMwrite
  PROVE UNCHANGED cur
BY DEF DevNext, DevStep, DevIdentify, DevGetvar, DevSetvar, DevBurnsteps, DevDownload,
       DevImage, DevBoot, DevCbw, DevSum, DevDiskInitial, DevMwrite, DevBlock, DevVerify,
       DevVerified, DevInfo, DevReboot, DevLeave, DevAppear, DevRefuse, DevReject, DevCrash,
       DevCorrupt, DevMisstore, Rejected, devVars, storage

\* Nothing is written before oem disk_initial was carried out.
LEMMA UntouchedNext ==
  ASSUME IInv, Next
  PROVE UntouchedInv'
<1>0. SectionInv /\ FlightInv /\ PacketInv /\ CurInv /\ UntouchedInv
  BY DEF IInv
<1>1. CASE BeforeErase /\ HostNext
  BY <1>0, <1>1, HostFrame DEF UntouchedInv, Holds, devVars, storage
<1>2. CASE BeforeErase /\ DevNext /\ UNCHANGED hostVars
  <2>1. cur = 0 /\ part # 0 /\ \A p \in Parts : Holds(p, "old")
    BY <1>0, <1>2, PartFacts DEF UntouchedInv
  <2>2. CASE DevOemMwrite \/ DevDiskInitial
    <3>1. out' = <<>> /\ out # <<>> /\ out[1].op \in {"oem mwrite", "oem disk_initial"}
      BY <2>2 DEF DevOemMwrite, DevDiskInitial, Take
    <3>2. sec \in {"oem", "failed"} \/ (sec = "tpl" /\ ip = 4 /\ awaiting) \/ sec = "failed"
      <4>1. CASE sec = "tpl"
        <5>1. awaiting /\ out[1].op = Row.op /\ ip <= Len(Script)
          BY <1>0, <3>1, <4>1 DEF FlightInv
        <5>2. ip # 4 => Row.op \notin {"oem disk_initial", "oem mwrite"}
          BY <1>0, <4>1, <5>1, Rows DEF FlightInv
        <5>. QED
          BY <3>1, <4>1, <5>1, <5>2
      <4>. QED
        BY <1>0, <3>1, <4>1 DEF PacketInv, Pending
    <3>3. ~BeforeErase'
      <4>1. UNCHANGED <<sec, ip, awaiting>>
        BY <1>2 DEF hostVars
      <4>2. sec' \notin BeforeParts \ {"tpl"} /\ (sec' = "tpl" => ip' = 4 /\ awaiting')
        BY <3>2, <4>1 DEF BeforeParts
      <4>3. ~Pending("oem disk_initial")'
        BY <3>1 DEF Pending
      <4>4. sec' = "tpl" => ~(ip' < 4)
        BY <4>2
      <4>. QED
        BY Zenon, <4>2, <4>3, <4>4 DEF BeforeErase
    <3>. QED
      BY <3>3 DEF UntouchedInv
  <2>3. CASE ~DevOemMwrite /\ ~DevDiskInitial
    <3>1. UNCHANGED flash
      BY <1>2, <2>1, <2>3, CommitWrites, MisstoreWrites, StorageSteps DEF WritesPart, Next
    <3>2. UNCHANGED cur
      BY <1>2, <2>3, CurSteps
    <3>. QED
      BY <2>1, <3>1, <3>2 DEF UntouchedInv, Holds
  <2>. QED
    BY <2>2, <2>3
<1>3. CASE ~BeforeErase
  <2>1. ~BeforeErase'
    <3>1. CASE HostSend
      <4>1. /\ UNCHANGED <<sec, ip>> /\ ip \in Nat \ {0} /\ ip <= Len(Script)
            /\ ~awaiting /\ awaiting' /\ out'[1].op = Row.op
        BY <1>0, <3>1 DEF HostSend, Write, FlightInv
      <4>2. sec = "tpl" => ~(ip < 4) /\ ip # 4
        BY <1>3, <4>1 DEF BeforeErase
      <4>3. Row.op = "oem disk_initial" => sec = "tpl" /\ ip = 4
        BY <1>0, <4>1, Rows
      <4>. QED
        BY <1>3, <4>1, <4>2, <4>3 DEF BeforeErase, Pending
    <3>2. CASE HostReceive
      <4>1. /\ UNCHANGED <<sec, out>> /\ ip' = ip + 1 /\ ip \in Nat \ {0}
        BY <1>0, <3>2 DEF HostReceive, FlightInv
      <4>. QED
        <5>1. sec = "tpl" => ~(ip < 4)
          BY <1>3 DEF BeforeErase
        <5>2. sec' = "tpl" => ~(ip' < 4) /\ ip' # 4
          BY <4>1, <5>1
        <5>3. sec' \notin BeforeParts \ {"tpl"} /\ ~Pending("oem disk_initial")'
          BY <1>3, <4>1 DEF BeforeErase, BeforeParts, Pending
        <5>. QED
          BY <5>2, <5>3 DEF BeforeErase, BeforeParts
    <3>3. CASE HostUnexpected \/ HostUsbError
      BY <1>3, <3>3 DEF HostUnexpected, HostUsbError, Fail, Goto, BeforeErase, BeforeParts,
                        Pending
    <3>4. CASE HostBusy
      BY <1>3, <3>4 DEF HostBusy, BeforeErase, Pending
    <3>5. CASE Moving
      <4>1. out' = <<>>
        BY <3>5, MovingIsLocal
      <4>2. sec' \notin BeforeParts
        BY <1>3, <3>5, MovingEarly DEF BeforeErase
      <4>. QED
        BY <4>1, <4>2 DEF BeforeErase, BeforeParts, Pending
    <3>6. CASE HostDataOut \/ HostBlock
      <4>1. /\ sec' \in {"blocks", "tplSum"}
            /\ UNCHANGED out \/ (out' # <<>> /\ out'[1].op = "data")
        BY <3>6 DEF HostDataOut, HostBlock, Goto, Write
      <4>. QED
        BY <1>3, <4>1 DEF BeforeErase, BeforeParts, Pending
    <3>7. CASE DevNext /\ UNCHANGED hostVars
      BY <1>3, <3>7, DevOut DEF BeforeErase, Pending, hostVars
    <3>. QED
      BY <3>1, <3>2, <3>3, <3>4, <3>5, <3>6, <3>7 DEF Next, HostNext, Moving
  <2>. QED
    BY <2>1 DEF UntouchedInv
<1>. QED
  BY <1>1, <1>2, <1>3 DEF Next

\* No step writes a partition whose turn is still to come.
LEMMA BlankNext ==
  ASSUME IInv, Next
  PROVE BlankInv'
<1>0. SectionInv /\ SectionInv' /\ BlankInv /\ PacketInv /\ flash \in Storage
  BY SectionNext DEF IInv, CurInv, Storage
<1>1. part' \in {part, part + 1} /\ part \in Nat
  <2>1. CASE Moving
    BY <1>0, <2>1, MovingCur DEF SectionInv
  <2>2. CASE ~Moving
    BY <1>0, <2>2 DEF Next, HostNext, Moving, HostSend, HostReceive, HostUnexpected,
       HostUsbError, HostBusy, HostDataOut, HostBlock, hostVars, SectionInv
  <2>. QED
    BY <2>1, <2>2
<1>2. ASSUME NEW p \in Parts, p > part'
      PROVE Holds(p, "old")' \/ Holds(p, "erased")'
  <2>1. p > part /\ p # part
    BY <1>1, <1>2 DEF Parts
  <2>2. CASE flash'[p] = flash[p]
    BY <1>0, <2>1, <2>2 DEF BlankInv, Holds
  <2>3. CASE DevDiskInitial
    <3>1. CASE flash' = [q \in Parts |-> [o \in 0 .. PartSize - 1 |-> "erased"]]
      BY <2>1, <3>1 DEF Holds
    <3>. QED
      BY <2>2, <2>3, <3>1, DiskInitialWrites
  <2>4. CASE ~DevDiskInitial
    BY <2>1, <2>2, <2>4, CommitWrites, MisstoreWrites, StorageSteps DEF WritesPart
  <2>. QED
    BY <2>3, <2>4
<1>. QED
  BY <1>2 DEF BlankInv, Parts

\* No step spoils a partition that was passed, or passes one not intact.
LEMMA BurnedNext ==
  ASSUME IInv, Next
  PROVE BurnedIntact'
<1>0. SectionInv /\ SectionInv' /\ PacketInv /\ BurnedIntact /\ VerdictInv /\ flash \in Storage
  BY SectionNext DEF IInv, CurInv, Storage
<1>1. ASSUME NEW p \in 1 .. part' - 1
      PROVE Intact(p)'
  <2>1. CASE HostNext
    <3>1. UNCHANGED flash
      BY <2>1, HostFrame DEF devVars, storage
    <3>2. CASE UNCHANGED part
      BY <1>0, <3>1, <3>2 DEF BurnedIntact, Intact
    <3>3. CASE ~UNCHANGED part
      <4>1. Moving
        BY <2>1, <3>3 DEF HostNext, Moving, HostSend, HostReceive, HostUnexpected,
           HostUsbError, HostBusy, HostDataOut, HostBlock
      <4>2. part' = part + 1 /\ Intact(part)
        BY <3>3, <4>1, MovingCur
      <4>3. p \in 1 .. part - 1 \/ p = part
        BY <1>0, <4>2 DEF SectionInv
      <4>. QED
        BY <1>0, <3>1, <4>2, <4>3 DEF BurnedIntact, Intact
    <3>. QED
      BY <3>2, <3>3
  <2>2. CASE DevNext /\ UNCHANGED hostVars
    <3>1. p \in 1 .. part - 1 /\ p \in Parts /\ p # part /\ Intact(p) /\ part # 1
      BY <1>0, <2>2 DEF SectionInv, Parts, BurnedIntact, hostVars
    <3>2. flash'[p] = flash[p]
      <4>1. CASE DevDiskInitial
        BY <1>0, <3>1, <4>1 DEF DevDiskInitial, Take, PacketInv, Pending
      <4>2. CASE ~DevDiskInitial
        BY <3>1, <4>2, CommitWrites, MisstoreWrites, StorageSteps DEF WritesPart
      <4>. QED
        BY <4>1, <4>2
    <3>. QED
      BY <3>1, <3>2 DEF Intact
  <2>. QED
    BY <2>1, <2>2 DEF Next
<1>2. sec' = "done" => part' = NumParts + 1
  BY <1>0 DEF SectionInv, AfterParts
<1>3. sec' = "done" => \A p \in Parts : Intact(p)'
  BY <1>1, <1>2 DEF Parts
<1>. QED
  BY <1>1, <1>3 DEF BurnedIntact

\* The burn begins in the invariant.
LEMMA InitInv ==
  ASSUME Init
  PROVE IInv
<1>. USE DEF Init, DevInit, HostInit
<1>1. setup \in Setups /\ dstage \in {"OFF", "ROM", "SPL", "TPL"}
  BY SetupsAssumption
<1>2. flash = [p \in Parts |-> [o \in 0 .. PartSize - 1 |-> "old"]]
  OBVIOUS
<1>3. SectionInv /\ FlightInv /\ PacketInv /\ ModeInv
  BY <1>1 DEF SectionInv, FlightInv, PacketInv, ModeInv, BeforeParts, InPart, AfterParts,
              Pending, Replied
<1>4. CurInv /\ VerdictInv
  BY <1>2 DEF CurInv, VerdictInv, InPart, Replied
<1>5. UntouchedInv /\ BlankInv
  BY <1>2 DEF UntouchedInv, BlankInv, Holds, Parts
<1>6. BurnedIntact
  BY DEF BurnedIntact
<1>. QED
  BY <1>3, <1>4, <1>5, <1>6 DEF IInv

\* The partition loop, the packets in flight, the device and the flash stay in
\* step whatever the device refuses, corrupts or forgets.
THEOREM Invariance == Spec => []IInv
<1>1. IInv /\ [Next]_vars => IInv'
  <2>1. ASSUME IInv, Next PROVE IInv'
    BY <2>1, SectionNext, FlightNext, PacketNext, ModeNext, CurNext, VerdictNext,
       UntouchedNext, BlankNext, BurnedNext DEF IInv
  <2>2. ASSUME IInv, UNCHANGED vars PROVE IInv'
    <3>1. UNCHANGED <<setup, dstage, addr, bootTo, mode, cur, written, flash, out, inn, sec,
                      ip, awaiting, secure, buf, sum, part>>
      BY <2>2 DEF vars, devVars, storage, hostVars
    <3>2. Script' = Script /\ Row' = Row
      BY <3>1, SameScript
    <3>3. SectionInv' /\ PacketInv'
      BY <2>2, <3>1 DEF IInv, SectionInv, PacketInv, Pending
    <3>6. ModeInv'
      BY <2>2, <3>1 DEF IInv, ModeInv, Replied
    <3>5. FlightInv'
      BY <2>2, <3>1, <3>2 DEF IInv, FlightInv
    <3>4. CurInv' /\ VerdictInv'
      BY <2>2, <3>1 DEF IInv, CurInv, VerdictInv, Intact, Holds, Pending, Replied
    <3>7. UntouchedInv' /\ BlankInv' /\ BurnedIntact'
      BY <2>2, <3>1 DEF IInv, UntouchedInv, BeforeErase, BlankInv, BurnedIntact, Intact,
         Holds, Pending, Replied
    <3>. QED
      BY <3>3, <3>4, <3>5, <3>6, <3>7 DEF IInv
  <2>. QED
    BY <2>1, <2>2
<1>. QED
  BY <1>1, InitInv, PTL DEF Spec

\* Whatever is corrupted, stored wrongly, refused or reset on the way, a
\* partition that tpl_burn_partition has passed holds its image, and success
\* means that all do.
THEOREM AlwaysIntact == Spec => []BurnedIntact
<1>1. IInv => BurnedIntact
  BY DEF IInv
<1>. QED
  BY Invariance, <1>1, PTL

----------------------------------------------------------------------------
(* The contract of a burn. *)

\* Contents depend on the flash alone.
LEMMA ContentKept ==
  ASSUME NEW p \in Parts, flash'[p] = flash[p]
  PROVE ContentOf(p)' = ContentOf(p)
BY DEF ContentOf, Holds

\* A partition that was passed holds its image, one to come nothing.
LEMMA ContentByTurn ==
  ASSUME IInv
  PROVE /\ \A p \in Parts : p < part => ContentOf(p) = "image"
        /\ \A p \in Parts : p > part => ContentOf(p) \in {"old", "erased"}
        /\ \A p \in Parts : Intact(p) => ContentOf(p) = "image"
<1>0. 0 \in 0 .. PartSize - 1 /\ part \in Nat
  BY DEF IInv, SectionInv
<1>1. \A p \in Parts : Intact(p) => ContentOf(p) = "image"
  BY <1>0 DEF Intact, ContentOf, Holds
<1>2. \A p \in Parts : p < part => Intact(p)
  BY <1>0 DEF IInv, BurnedIntact, Parts
<1>3. \A p \in Parts : p > part => ContentOf(p) \in {"old", "erased"}
  BY DEF IInv, BlankInv, ContentOf
<1>. QED
  BY <1>1, <1>2, <1>3

\* The burn begins as the contract does.
LEMMA ContractInit == Init => Contract!Init
<1>. SUFFICES ASSUME Init PROVE Contract!Init
  OBVIOUS
<1>1. \A p \in Parts : ContentOf(p) = "old"
  BY DEF Init, DevInit, ContentOf, Holds
<1>2. Outcome = "running"
  BY DEF Init, HostInit, Outcome
<1>. QED
  BY <1>1, <1>2 DEF Contract!Init, Contract!Parts, Parts

\* A burn that has ended is over.
LEMMA NotEnded ==
  ASSUME IInv, HostNext
  PROVE sec \notin Ended
<1>. SUFFICES ASSUME sec \in Ended PROVE FALSE
  OBVIOUS
<1>1. Len(Script) = 0 /\ ip \in Nat \ {0}
  BY Lengths DEF IInv, FlightInv
<1>2. ~awaiting
  BY <1>1 DEF IInv, FlightInv
<1>3. sec \in {"done", "failed", "notfound"}
  BY DEF Ended
<1>. QED
  BY <1>1, <1>2, <1>3 DEF HostNext, HostSend, HostReceive, HostUnexpected, HostFind,
     HostProbed, HostNextSection, After, HostWaited, HostSecured, HostBl2, HostCbw, HostPiece,
     HostDataOut, HostBlock, HostWritten, HostBusy, HostVerified, HostUsbError, Writing

\* The host writes nothing; it ends a burn in success only with every
\* partition intact.
LEMMA HostKeepsContract ==
  ASSUME IInv, IInv', HostNext
  PROVE [Contract!Next]_(Contract!vars)
<1>1. sec \notin Ended /\ UNCHANGED flash
  BY NotEnded, HostFrame DEF devVars, storage
<1>2. \A p \in Parts : ContentOf(p)' = ContentOf(p)
  BY <1>1, ContentKept
<1>3. Outcome = "running"
  BY <1>1 DEF Outcome, Ended
<1>4. CASE sec' \notin Ended
  BY <1>2, <1>3, <1>4 DEF Contract!vars, Outcome, Ended
<1>5. CASE sec' \in {"failed", "notfound"}
  BY <1>2, <1>3, <1>5 DEF Contract!Next, Contract!GiveUp, Outcome
<1>6. CASE sec' = "done"
  <2>1. \A p \in Parts : Intact(p)'
    BY <1>6 DEF IInv, BurnedIntact
  <2>2. (\A p \in Parts : Intact(p) => ContentOf(p) = "image")'
    BY ContentByTurn, PTL
  <2>. QED
    BY <1>2, <1>3, <1>6, <2>1, <2>2
       DEF Contract!Next, Contract!Succeed, Contract!Parts, Parts, Outcome
<1>. QED
  BY <1>4, <1>5, <1>6 DEF Ended

\* Places of the partition in hand that change make it partial or complete.
LEMMA WriteKeepsContract ==
  ASSUME IInv, DevNext, UNCHANGED hostVars, flash' \in Storage, WritesPart, ~UNCHANGED flash
  PROVE Contract!Next
<1>0. flash \in Storage /\ part \in Parts /\ sec # "done" /\ UNCHANGED Outcome
  BY DEF IInv, CurInv, SectionInv, AfterParts, Storage, WritesPart, Parts, hostVars, Outcome
<1>1. PICK o \in 0 .. PartSize - 1 : flash'[part][o] # flash[part][o]
  <2>1. flash'[part] # flash[part]
    BY <1>0 DEF Storage, WritesPart
  <2>. QED
    BY <1>0, <2>1 DEF Storage
<1>2. flash'[part][o] \in {"good", "bad"}
  BY <1>1 DEF WritesPart
<1>3. ContentOf(part)' \in {"partial", "image"}
  <2>1. ~(\A q \in 0 .. PartSize - 1 : flash'[part'][q] = "old")
        /\ ~(\A q \in 0 .. PartSize - 1 : flash'[part'][q] = "erased")
    BY <1>1, <1>2 DEF hostVars
  <2>. QED
    BY <2>1 DEF ContentOf, Holds
<1>4. \A p \in Parts : p # part => ContentOf(p)' = ContentOf(p)
  BY ContentKept DEF WritesPart
<1>5. [p \in Parts |-> ContentOf(p)]' = [[p \in Parts |-> ContentOf(p)] EXCEPT ![part] = ContentOf(part)']
  BY <1>0, <1>4 DEF hostVars
<1>6. /\ \A q \in 1 .. part - 1 : q \in Parts /\ ContentOf(q) = "image"
      /\ \A q \in part + 1 .. NumParts : q \in Parts /\ ContentOf(q) \in {"old", "erased"}
  BY <1>0, ContentByTurn DEF Parts
<1>7. Contract!Write(part)
  BY <1>0, <1>3, <1>5, <1>6 DEF Contract!Write, Outcome
<1>. QED
  BY <1>0, <1>7 DEF Contract!Next, Contract!Parts, Parts

\* oem disk_initial erases what nothing was written to.
LEMMA EraseKeepsContract ==
  ASSUME IInv, DevDiskInitial, UNCHANGED hostVars, ~UNCHANGED flash
  PROVE Contract!Next
<1>1. Pending("oem disk_initial")
  BY DEF DevDiskInitial, Take, Pending
<1>2. sec # "done" /\ \A p \in Parts : Holds(p, "old")
  BY <1>1 DEF IInv, PacketInv, UntouchedInv, BeforeErase
<1>3. \A p \in Parts : ContentOf(p) = "old"
  BY <1>2 DEF ContentOf
<1>4. flash' = [p \in Parts |-> [o \in 0 .. PartSize - 1 |-> "erased"]]
  BY DiskInitialWrites
<1>5. \A p \in Parts : ContentOf(p)' = "erased"
  <2>1. 0 \in 0 .. PartSize - 1
    OBVIOUS
  <2>2. \A p \in Parts : Holds(p, "erased")' /\ ~Holds(p, "old")'
    BY <1>4, <2>1 DEF Holds
  <2>. QED
    BY <2>2 DEF ContentOf
<1>6. UNCHANGED Outcome /\ Outcome # "done"
  BY <1>2 DEF Outcome, hostVars
<1>. QED
  BY <1>3, <1>5, <1>6 DEF Contract!Next, Contract!Erase, Contract!Parts, Parts

\* The ADNL burn keeps the contract of a burn: every step erases or writes the
\* storage as the contract allows, ends the burn as it allows, or changes
\* nothing the contract sees.
THEOREM RefinesContract == Spec => AdnlKeepsContract
<1>1. ASSUME IInv, IInv', [Next]_vars PROVE [Contract!Next]_(Contract!vars)
  <2>1. CASE UNCHANGED flash /\ UNCHANGED sec
    <3>1. \A p \in Parts : ContentOf(p)' = ContentOf(p)
      BY <2>1, ContentKept
    <3>. QED
      BY <2>1, <3>1 DEF Contract!vars, Outcome
  <2>2. CASE HostNext
    BY <1>1, <2>2, HostKeepsContract
  <2>3. CASE DevNext /\ UNCHANGED hostVars /\ ~UNCHANGED flash
    <3>1. Next
      BY <2>3 DEF Next
    <3>2. DevDiskInitial \/ (flash' \in Storage /\ WritesPart)
      BY <1>1, <2>3, <3>1, StorageSteps, CommitWrites, MisstoreWrites
    <3>. QED
      BY <1>1, <2>3, <3>2, WriteKeepsContract, EraseKeepsContract
  <2>. QED
    BY <1>1, <2>1, <2>2, <2>3 DEF Next, vars, devVars, storage, hostVars
<1>. QED
  BY ContractInit, Invariance, <1>1, PTL DEF Spec, AdnlKeepsContract, Contract!Spec

----------------------------------------------------------------------------
(* The boot chain and its counts.  Without faults each stage's commands     *)
(* reach that stage (StageAgrees, from WhereInv); whatever happens, a TPL   *)
(* is started only with every byte of U-Boot in place (TplInPlace, from     *)
(* PlaceInv), and nothing is received or written beyond what was asked for  *)
(* (TypeOK, from FormInv and CountInv).                                     *)

\* Every step keeps the commands that end a stage in their section.
LEMMA LeavingNext ==
  ASSUME IInv, LeavingInv, Next
  PROVE LeavingInv'
<1>. USE DEF LeavingInv, Pending
<1>0. SectionInv /\ FlightInv
  BY DEF IInv
<1>1. CASE HostSend
  <2>1. /\ out'[1].op = Row.op /\ UNCHANGED sec
        /\ ip \in Nat \ {0} /\ ip <= Len(Script)
    BY <1>0, <1>1 DEF HostSend, Write, FlightInv
  <2>2. /\ Row.op = "reboot-romusb" => sec = "toRom"
        /\ Row.op = "reboot" => sec = "reboot"
        /\ Row.op = "cbw" => sec = "cbw"
        /\ Row.op = "boot" => sec = "rom"
    BY <1>0, <2>1, Rows
  <2>. QED
    BY <2>1, <2>2
<1>2. CASE HostReceive \/ HostBusy
  BY <1>2 DEF HostReceive, HostBusy
<1>3. CASE HostUnexpected \/ HostUsbError
  BY <1>3 DEF HostUnexpected, HostUsbError, Fail, Goto
<1>4. CASE Moving
  BY <1>4, MovingIsLocal
<1>5. CASE HostDataOut
  BY <1>0, <1>5 DEF HostDataOut, FlightInv
<1>6. CASE HostBlock
  <2>1. out # <<>> => out[1].op = "data"
    BY <1>0, <1>6, SendingBlocks DEF HostBlock
  <2>2. \/ out' # <<>> /\ out'[1].op = "data"
        \/ UNCHANGED out
    BY <1>6 DEF HostBlock, Write
  <2>. QED
    BY <2>1, <2>2
<1>7. CASE DevNext /\ UNCHANGED hostVars
  BY <1>0, <1>7, DevOut DEF hostVars
<1>. QED
  BY <1>1, <1>2, <1>3, <1>4, <1>5, <1>6, <1>7 DEF Next, HostNext, Moving

\* Only a few steps of the device change its stage, and the rest are faults.
LEMMA DevStays ==
  ASSUME DevNext
  PROVE \/ UNCHANGED <<dstage, addr, bootTo>>
        \/ DevBoot \/ DevCbw \/ DevReboot \/ DevLeave \/ DevAppear
        \/ DevCrash
BY RejectedReply
   DEF DevNext, DevStep, DevIdentify, DevGetvar, DevSetvar, DevBurnsteps, DevDownload,
       DevImage, DevSum, DevDiskInitial, DevOemMwrite, DevMwrite, DevBlock,
       DevVerify, DevVerified, DevInfo, DevRefuse, DevReject, DevCorrupt, DevMisstore, Take,
       devVars

\* Faults are counted.
LEMMA FaultsCount ==
  ASSUME faults \in 0 .. MaxFaults, Next
  PROVE faults' \in 0 .. MaxFaults /\ faults' >= faults
<1>1. CASE UNCHANGED faults
  BY <1>1
<1>2. CASE Fault
  BY <1>2 DEF Fault
<1>3. HostNext => UNCHANGED faults \/ Fault
  BY DEF HostNext, HostSend, HostReceive, HostUnexpected, HostFind, HostProbed,
       HostNextSection, HostWaited, HostSecured, HostBl2, HostCbw, HostPiece, HostDataOut,
       HostBlock, HostWritten, HostBusy, HostVerified, HostUsbError, Local
<1>4. DevNext => UNCHANGED faults \/ Fault
  BY DEF DevNext, DevStep, DevIdentify, DevGetvar, DevSetvar, DevBurnsteps, DevDownload,
       DevImage, DevBoot, DevCbw, DevSum, DevDiskInitial, DevOemMwrite, DevMwrite, DevBlock,
       DevVerify, DevVerified, DevInfo, DevReboot, DevLeave, DevAppear, DevRefuse, DevReject,
       DevCrash, DevCorrupt, DevMisstore, Take
<1>. QED
  BY <1>1, <1>2, <1>3, <1>4 DEF Next

\* In the sections that ask for the stage or end one, only their own command
\* is answered with OKAY.
LEMMA StageAnswers ==
  ASSUME IInv, DevNext, sec \in {"probe", "toRom", "cbw"}
  PROVE \/ UNCHANGED inn \/ inn' = <<>> \/ inn'[1].header = "FAIL"
        \/ sec = "probe" /\ DevIdentify
        \/ sec = "toRom" /\ DevReboot
        \/ sec = "cbw" /\ DevCbw
<1>0. SectionInv /\ FlightInv /\ ModeInv
  BY DEF IInv
<1>1. out # <<>> => out[1].op = IF sec = "probe" THEN "identify"
                                ELSE IF sec = "toRom" THEN "reboot-romusb" ELSE "cbw"
  <2>1. out # <<>> => awaiting /\ out[1].op = Row.op
    BY <1>0 DEF FlightInv
  <2>2. awaiting => ip \in Nat \ {0} /\ ip <= Len(Script)
    BY <1>0 DEF FlightInv
  <2>3. awaiting => /\ sec = "probe" => Row.op = "identify"
                    /\ sec = "toRom" => Row.op = "reboot-romusb"
                    /\ sec = "cbw" => Row.op = "cbw"
    BY <1>0, <2>2, Rows
  <2>. QED
    BY <2>1, <2>3
<1>2. CASE DevGetvar \/ DevSetvar \/ DevBurnsteps \/ DevDownload
  BY <1>1, <1>2 DEF DevGetvar, DevSetvar, DevBurnsteps, DevDownload, Take
<1>3. CASE DevImage \/ DevBoot \/ DevSum \/ DevDiskInitial \/ DevMwrite
  BY <1>1, <1>3 DEF DevImage, DevBoot, DevSum, DevDiskInitial, DevMwrite, Take
<1>4. CASE DevOemMwrite \/ DevBlock
  BY <1>1, <1>4 DEF DevOemMwrite, DevBlock, Take
<1>5. CASE DevIdentify
  BY <1>1, <1>5 DEF DevIdentify, Take
<1>6. CASE DevReboot
  BY <1>1, <1>6 DEF DevReboot, Take
<1>7. CASE DevCbw
  BY <1>1, <1>7 DEF DevCbw, Take
<1>8. CASE DevReject \/ DevRefuse
  BY <1>8, RejectedReply DEF DevReject, DevRefuse
<1>9. CASE DevInfo \/ DevVerified
  BY <1>0, <1>9 DEF DevInfo, DevVerified, ModeInv
<1>10. CASE DevVerify \/ DevLeave \/ DevAppear \/ DevCrash \/ DevCorrupt \/ DevMisstore
  BY <1>10 DEF DevVerify, DevLeave, DevAppear, DevCrash, DevCorrupt, DevMisstore
<1>. QED
  BY <1>2, <1>3, <1>4, <1>5, <1>6, <1>7, <1>8, <1>9, <1>10 DEF DevNext, DevStep

\* An answer stays until the host reads it.
LEMMA AnswerStays ==
  ASSUME DevNext, ~DevCrash, inn # <<>>
  PROVE UNCHANGED inn
BY RejectedReply
   DEF DevNext, DevStep, DevIdentify, DevGetvar, DevSetvar, DevBurnsteps, DevDownload,
       DevImage, DevBoot, DevCbw, DevSum, DevDiskInitial, DevOemMwrite, DevMwrite, DevBlock,
       DevVerify, DevVerified, DevInfo, DevReboot, DevLeave, DevAppear, DevRefuse, DevReject,
       DevCorrupt, DevMisstore, Take

\* When the SPL asks for a chunk, or is done and leaves for the TPL.
LEMMA CbwFacts ==
  ASSUME DevCbw, ModeInv
  PROVE /\ dstage = "SPL" /\ UNCHANGED <<dstage, addr, mode>> /\ out' = <<>>
        /\ Pending("cbw") /\ inn' # <<>> /\ inn'[1].header = "OKAY"
        /\ IF inn'[1].payload.done THEN bootTo' = "TPL" ELSE UNCHANGED bootTo
<1>1. dstage = "SPL" /\ UNCHANGED <<dstage, addr, mode>> /\ out' = <<>> /\ Pending("cbw")
  BY Taken DEF DevCbw, Take, Pending
<1>2. CASE bootTo' = "TPL" /\ Reply("OKAY", [NoRequest EXCEPT !.done = TRUE])
  BY <1>1, <1>2 DEF Reply, NoRequest
<1>3. ASSUME NEW c \in Chunks(Unloaded), Reply("OKAY", c), UNCHANGED bootTo
      PROVE inn' # <<>> /\ inn'[1].header = "OKAY" /\ ~inn'[1].payload.done
  BY <1>3 DEF Reply, Chunks
<1>. QED
  BY <1>1, <1>2, <1>3 DEF DevCbw

\* As long as nothing goes wrong the device keeps its place.
LEMMA DevWhere ==
  ASSUME IInv, LeavingInv, Where, DevNext, UNCHANGED hostVars, ~Fault
  PROVE Where'
<1>0. /\ UNCHANGED <<sec, ip, awaiting, payload, handle, lastAddr>>
      /\ SectionInv /\ FlightInv /\ ModeInv /\ ip \in Nat \ {0}
  BY DEF IInv, FlightInv, hostVars
<1>1. ~DevCrash /\ (inn # <<>> => UNCHANGED inn)
  BY AnswerStays DEF DevCrash
<1>. USE DEF Here, InTransit, Unanswered, Replied, TplSections
<1>2. CASE UNCHANGED <<dstage, addr, bootTo>> /\ ~DevIdentify /\ ~DevReboot /\ ~DevCbw
  <2>1. sec \in {"probe", "toRom", "cbw"} => (Replied("OKAY")' <=> Replied("OKAY"))
    BY <1>1, <1>2, StageAnswers
  <2>2. Replied("OKAY") => UNCHANGED inn
    BY <1>1
  <2>. QED
    BY <1>0, <1>2, <2>1, <2>2 DEF Where
<1>3. CASE DevIdentify
  <2>1. /\ UNCHANGED <<dstage, addr, bootTo>> /\ inn = <<>>
        /\ inn' = <<[header |-> "OKAY", payload |-> [stage |-> dstage]]>>
        /\ out # <<>> /\ out[1].op = "identify"
    BY <1>3 DEF DevIdentify, Take, Reply
  <2>2. sec \notin {"toRom", "cbw"}
    BY <1>0, <2>1, Rows DEF FlightInv
  <2>. QED
    BY <1>0, <2>1, <2>2 DEF Where
<1>4. CASE DevReboot
  <2>1. /\ UNCHANGED <<dstage, addr>> /\ inn' # <<>> /\ inn'[1].header = "OKAY"
        /\ \/ Pending("reboot") /\ bootTo' = "OFF"
           \/ Pending("reboot-romusb") /\ bootTo' = "ROM"
        /\ inn = <<>> /\ out # <<>>
    BY <1>4 DEF DevReboot, Take, Plain, Reply, Pending
  <2>2. sec \in {"toRom", "reboot", "failed"}
    BY <2>1 DEF LeavingInv
  <2>3. sec = "toRom" => ip = 1 /\ Pending("reboot-romusb")
    <3>1. sec = "toRom" => awaiting /\ out[1].op = Row.op /\ ip <= Len(Script)
      BY <1>0, <2>1 DEF FlightInv
    <3>2. sec = "toRom" => Row.op = "reboot-romusb"
      BY <1>0, <3>1, Rows DEF FlightInv
    <3>3. sec = "toRom" => Len(Script) = 1
      BY Scripts
    <3>4. sec = "toRom" => ip <= 1
      BY <3>1, <3>3
    <3>. QED
      BY <1>0, <2>1, <3>1, <3>2, <3>4 DEF Pending
  <2>. QED
    BY <1>0, <2>1, <2>2, <2>3 DEF Where, Pending
<1>5. CASE DevCbw
  <2>1. sec \in {"cbw", "failed"} /\ inn = <<>>
    BY <1>0, <1>5, CbwFacts DEF LeavingInv, DevCbw, Take
  <2>2. sec = "cbw" => ip = 1
    <3>1. out # <<>>
      BY <1>0, <1>5, CbwFacts DEF Pending
    <3>2. sec = "cbw" => ip <= Len(Script)
      BY <1>0, <3>1 DEF FlightInv
    <3>3. sec = "cbw" => ip <= 1
      BY <3>2, Lengths
    <3>. QED
      BY <1>0, <3>3
  <2>. QED
    BY <1>0, <1>5, <2>1, <2>2, CbwFacts DEF Where
<1>6. CASE DevBoot
  <2>1. /\ UNCHANGED <<addr, bootTo>> /\ dstage' \in {"ROM", "SPL"} /\ Pending("boot")
    BY <1>6 DEF DevBoot, Take, Pending
  <2>2. sec \in {"rom", "failed"}
    BY <2>1 DEF LeavingInv
  <2>. QED
    BY <1>0, <2>1, <2>2 DEF Where
<1>7. CASE DevLeave
  <2>1. /\ UNCHANGED <<addr, bootTo>> /\ dstage' = "OFF" /\ bootTo # "stay" /\ inn = <<>>
        /\ UNCHANGED inn
    BY <1>7 DEF DevLeave
  <2>. QED
    BY <1>0, <2>1 DEF Where
<1>8. CASE DevAppear
  <2>1. /\ dstage = "OFF" /\ dstage' = bootTo /\ bootTo' = "stay" /\ addr' # addr
        /\ bootTo \in {"ROM", "TPL"} /\ UNCHANGED inn
    BY <1>8 DEF DevAppear
  <2>. QED
    BY <1>0, <2>1 DEF Where
<1>. QED
  BY <1>1, <1>2, <1>3, <1>4, <1>5, <1>6, <1>7, <1>8, DevStays

\* The host goes on to a section only when the device is there for it.
LEMMA MovingWhere ==
  ASSUME IInv, Where, Moving
  PROVE Where'
<1>0. /\ UNCHANGED <<dstage, addr, bootTo, inn, payload>> /\ ip' = 1 /\ ip \in Nat \ {0}
      /\ (inn # <<>> => inn[1].header = "FAIL") /\ sec # "failed"
      /\ ModeInv
  BY MovingIsLocal DEF IInv, FlightInv, devVars, Moving, HostFind, HostProbed,
     HostNextSection, HostWaited, HostSecured, HostBl2, HostCbw, HostPiece, HostWritten,
     HostVerified, Local
<1>. USE DEF Here, InTransit, Unanswered, Replied, TplSections
<1>1. CASE HostFind
  <2>1. sec = "find" /\ UNCHANGED bootTo
    BY <1>0, <1>1 DEF HostFind
  <2>2. CASE sec' = "probe"
    <3>1. handle' = addr /\ lastAddr' = addr /\ dstage # "OFF"
      BY <1>1, <2>2 DEF HostFind, Goto
    <3>. QED
      BY <1>0, <2>1, <2>2, <3>1 DEF Where
  <2>3. CASE sec' = "notfound"
    BY <2>3 DEF Where
  <2>. QED
    BY <1>1, <2>2, <2>3 DEF HostFind, Goto
<1>2. CASE HostProbed
  <2>1. sec = "probe" /\ UNCHANGED <<handle, lastAddr>>
    BY <1>2 DEF HostProbed
  <2>2. ip > 1
    <3>1. ip > Len(Script) /\ Script = <<Identify(AnyStage)>>
      BY <1>2, <2>1, Scripts DEF HostProbed, SectionOver
    <3>2. Len(Script) = 1
      BY <3>1
    <3>. QED
      BY <1>0, <3>1, <3>2
  <2>3. payload.stage = dstage /\ Here
    BY <2>1, <2>2 DEF Where
  <2>4. \/ sec' = "toRom" /\ dstage = "TPL"
        \/ sec' = "secure" /\ dstage = "ROM"
        \/ sec' = "failed"
    <3>1. CASE payload.stage = "TPL"
      <4>1. Goto("toRom")
        BY Zenon, <1>2, <3>1 DEF HostProbed
      <4>. QED
        BY <2>3, <3>1, <4>1 DEF Goto
    <3>2. CASE payload.stage = "ROM"
      <4>1. Goto("secure")
        BY Zenon, <1>2, <3>2 DEF HostProbed
      <4>. QED
        BY <2>3, <3>2, <4>1 DEF Goto
    <3>3. CASE payload.stage # "TPL" /\ payload.stage # "ROM"
      <4>1. Goto("failed")
        BY Zenon, <1>2, <3>3 DEF HostProbed
      <4>. QED
        BY <4>1 DEF Goto
    <3>. QED
      BY <3>1, <3>2, <3>3
  <2>. QED
    BY <1>0, <2>1, <2>3, <2>4 DEF Where
<1>3. CASE HostNextSection
  <2>1. UNCHANGED <<handle, lastAddr>>
    BY <1>3 DEF HostNextSection
  <2>2. CASE sec = "toRom" /\ sec' = "waitRom"
    <3>1. ~Unanswered
      <4>1. ip > Len(Script) /\ Len(Script) = 1
        BY <1>3, <2>2, Scripts DEF HostNextSection, SectionOver
      <4>. QED
        BY <1>0, <4>1
    <3>. QED
      BY <1>0, <2>1, <2>2, <3>1 DEF Where
  <2>3. CASE sec = "rom" /\ sec' = "bl2"
    BY <1>0, <2>1, <2>3 DEF Where
  <2>4. CASE sec = "splSum" /\ sec' = "cbw"
    BY <1>0, <2>1, <2>4 DEF Where
  <2>5. CASE sec \in TplSections /\ sec' \in {"oem", "mwrite"}
    BY <1>0, <2>1, <2>5 DEF Where
  <2>6. CASE sec' \in {"reboot", "done"}
    BY <2>6 DEF Where
  <2>. QED
    BY <1>3, <2>2, <2>3, <2>4, <2>5, <2>6, Moves, Nexts DEF Goto, NextPartition
<1>4. CASE HostWaited
  <2>1. /\ sec \in {"waitRom", "waitTpl"} /\ handle' = addr
        /\ dstage # "OFF" /\ addr # lastAddr
        /\ sec' = IF sec = "waitRom" THEN "secure" ELSE "tpl"
        /\ sec = "waitRom" => lastAddr' = addr
    BY <1>4 DEF HostWaited, NewDevice, Goto
  <2>. QED
    BY <1>0, <2>1 DEF Where
<1>5. CASE HostSecured \/ HostBl2
  <2>1. /\ sec \in {"secure", "bl2"} /\ UNCHANGED <<handle, lastAddr>>
        /\ sec' \in {"rom", "cbw", "failed"}
    BY <1>5 DEF HostSecured, HostBl2, Goto
  <2>. QED
    BY <1>0, <2>1 DEF Where
<1>6. CASE HostCbw
  <2>1. /\ sec = "cbw" /\ UNCHANGED <<handle, lastAddr>>
        /\ sec' = IF payload.done THEN "waitTpl" ELSE "piece"
    BY <1>6 DEF HostCbw, Goto
  <2>2. ip # 1
    BY <1>0, <1>6, <2>1, Lengths DEF HostCbw, SectionOver
  <2>. QED
    BY <1>0, <2>1, <2>2 DEF Where
<1>7. CASE HostPiece
  <2>1. /\ sec = "piece" /\ UNCHANGED <<handle, lastAddr>>
        /\ sec' \in {"splSum", "piece"}
    BY <1>7 DEF HostPiece, Goto
  <2>. QED
    BY <1>0, <2>1 DEF Where
<1>8. CASE HostWritten \/ HostVerified
  <2>1. /\ sec \in TplSections /\ UNCHANGED <<handle, lastAddr>>
        /\ sec' \in {"verify", "failed", "oem", "reboot", "done"}
    BY <1>8 DEF HostWritten, HostVerified, Goto, NextPartition
  <2>. QED
    BY <1>0, <2>1 DEF Where
<1>. QED
  BY <1>1, <1>2, <1>3, <1>4, <1>5, <1>6, <1>7, <1>8 DEF Moving

\* Every step keeps the device where the host takes it to be.
LEMMA WhereNext ==
  ASSUME IInv, WhereInv, Next
  PROVE WhereInv'
<1>0. LeavingInv' /\ faults' \in 0 .. MaxFaults /\ faults' >= faults /\ faults \in Nat
  BY LeavingNext, FaultsCount DEF WhereInv
<1>1. ASSUME faults' = 0
      PROVE Where'
  <2>0. Where /\ LeavingInv /\ faults = 0 /\ ~Fault
    BY <1>0, <1>1 DEF WhereInv, Fault
  <2>1. CASE DevNext /\ UNCHANGED hostVars
    BY <2>0, <2>1, DevWhere
  <2>2. CASE Moving
    BY <2>0, <2>2, MovingWhere
  <2>3. CASE HostUnexpected \/ HostUsbError
    BY <2>3 DEF HostUnexpected, HostUsbError, Fail, Goto, Where, TplSections
  <2>. USE DEF Here, InTransit, Unanswered, Replied, TplSections
  <2>4. CASE HostSend
    <3>1. UNCHANGED <<dstage, addr, bootTo, inn, payload, sec, ip, handle, lastAddr>>
      BY <2>4 DEF HostSend, devVars
    <3>. QED
      BY <2>0, <3>1 DEF Where
  <2>5. CASE HostReceive
    <3>1. /\ UNCHANGED <<dstage, addr, bootTo, sec, handle, lastAddr>>
          /\ inn # <<>> /\ inn' = <<>> /\ awaiting /\ ip' = ip + 1 /\ ip \in Nat \ {0}
          /\ payload' = inn[1].payload /\ inn[1].header = Row.expect
          /\ SectionInv /\ ip <= Len(Script)
      BY <2>5 DEF HostReceive, devVars, IInv, FlightInv, Expected
    <3>2. sec \in {"probe", "toRom", "cbw"} => Replied("OKAY")
      BY <3>1, Rows
    <3>3. sec \in {"cbw"} => ip = 1
      <4>1. sec = "cbw" => ip <= 1
        BY <3>1, Lengths
      <4>. QED
        BY <3>1, <4>1
    <3>4. ip' # 1 /\ ip' > 1
      BY <3>1
    <3>. QED
      BY <2>0, <3>1, <3>2, <3>3, <3>4 DEF Where
  <2>6. CASE HostBusy \/ HostDataOut \/ HostBlock
    <3>1. /\ UNCHANGED <<dstage, addr, bootTo, handle>>
          /\ sec \in TplSections /\ sec' \in TplSections
      BY <2>6 DEF HostBusy, HostDataOut, HostBlock, devVars, Goto
    <3>. QED
      BY <2>0, <3>1 DEF Where
  <2>. QED
    BY <2>1, <2>2, <2>3, <2>4, <2>5, <2>6 DEF Next, HostNext, Moving
<1>. QED
  BY <1>0, <1>1 DEF WhereInv

\* As long as nothing goes wrong the device is where each section expects it.
THEOREM WhereInvariance == Spec => []WhereInv
<1>1. Init => WhereInv
  BY DEF Init, DevInit, HostInit, WhereInv, LeavingInv, Where, Pending, TplSections
<1>2. IInv /\ WhereInv /\ [Next]_vars => WhereInv'
  <2>1. ASSUME IInv, WhereInv, UNCHANGED vars
        PROVE WhereInv'
    <3>1. /\ UNCHANGED <<out, inn, faults, sec, ip, payload, handle, lastAddr>>
          /\ UNCHANGED <<dstage, addr, bootTo>>
      BY <2>1 DEF vars, devVars, hostVars
    <3>. QED
      BY <2>1, <3>1 DEF WhereInv, LeavingInv, Where, Pending, Here, InTransit, Unanswered,
                        Replied
  <2>. QED
    BY <2>1, WhereNext
<1>. QED
  BY <1>1, <1>2, Invariance, PTL DEF Spec

\* Without faults the endpoints in use belong to the current enumeration, and
\* every stage's commands reach that stage (wait_for_device).
THEOREM StagesAlwaysAgree == Spec => []StageAgrees
<1>1. WhereInv => StageAgrees
  BY DEF WhereInv, Where, StageAgrees, Here, RomSections, TplSections
<1>. QED
  BY WhereInvariance, <1>1, PTL

----------------------------------------------------------------------------
(* What the device receives and loads. *)

\* Few steps of the device touch what it asked for and received.
LEMMA ReceiveSteps ==
  ASSUME DevNext
  PROVE \/ UNCHANGED <<req, rcvd>>
        \/ DevImage \/ DevBlock \/ DevCbw \/ DevMwrite \/ DevCorrupt
BY RejectedReply
   DEF DevNext, DevStep, DevIdentify, DevGetvar, DevSetvar, DevBurnsteps, DevDownload,
       DevBoot, DevSum, DevDiskInitial, DevOemMwrite, DevVerify, DevVerified, DevInfo,
       DevReboot, DevLeave, DevAppear, DevRefuse, DevReject, DevCrash, DevMisstore, devVars,
       storage

\* Only a checksum changes what is loaded.
LEMMA LoadSteps ==
  ASSUME DevNext
  PROVE UNCHANGED loaded \/ DevSum
BY RejectedReply
   DEF DevNext, DevStep, DevIdentify, DevGetvar, DevSetvar, DevBurnsteps, DevDownload,
       DevImage, DevBoot, DevCbw, DevDiskInitial, DevOemMwrite, DevMwrite, DevBlock,
       DevVerify, DevVerified, DevInfo, DevReboot, DevLeave, DevAppear, DevRefuse, DevReject,
       DevCrash, DevCorrupt, DevMisstore, devVars, storage

\* Only mwrite is answered with DATAOUT.
LEMMA DataoutSteps ==
  ASSUME DevNext, Replied("DATAOUT")'
  PROVE UNCHANGED inn \/ DevMwrite
<1>. USE DEF Replied
<1>0. ASSUME NEW h, Plain(h) PROVE inn' # <<>> /\ inn'[1].header = h
  BY <1>0 DEF Plain, Reply
<1>1. CASE DevIdentify \/ DevCbw
  BY <1>1 DEF DevIdentify, DevCbw, Reply
<1>2. CASE Plain("OKAY") \/ Plain("DATA") \/ Plain("INFO") \/ Plain("FAIL")
  BY <1>0, <1>2
<1>3. DevGetvar \/ DevSetvar \/ DevBurnsteps \/ DevDownload \/ DevImage \/ DevBoot
        => Plain("OKAY") \/ Plain("DATA")
  BY DEF DevGetvar, DevSetvar, DevBurnsteps, DevDownload, DevImage, DevBoot
<1>4. DevDiskInitial \/ DevOemMwrite \/ DevReboot \/ DevInfo => Plain("OKAY") \/ Plain("INFO")
  BY DEF DevDiskInitial, DevOemMwrite, DevReboot, DevInfo
<1>7. DevSum \/ DevVerified => Plain("OKAY") \/ Plain("FAIL")
  BY DEF DevSum, DevVerified
<1>5. CASE DevRefuse \/ DevReject
  BY <1>5, RejectedReply DEF DevRefuse, DevReject, Replied
<1>6. CASE DevBlock \/ DevVerify \/ DevLeave \/ DevAppear \/ DevCrash \/ DevCorrupt \/ DevMisstore
  BY <1>6 DEF DevBlock, DevVerify, DevLeave, DevAppear, DevCrash, DevCorrupt, DevMisstore,
              Replied
<1>. QED
  BY <1>1, <1>2, <1>3, <1>4, <1>5, <1>6, <1>7 DEF DevNext, DevStep

\* A chunk the device asks for lies in what it misses.
LEMMA ChunkIn ==
  ASSUME NEW M, M \subseteq Nat, NEW c \in Chunks(M)
  PROVE /\ c \in Request /\ ~c.done
        /\ c.offs .. c.offs + c.size - 1 \subseteq M
<1>1. c \in [offs : M, size : 1 .. MaxRequest, done : {FALSE}]
  BY DEF Chunks
<1>2. /\ c = [offs |-> c.offs, size |-> c.size, done |-> c.done]
      /\ c.offs \in M /\ c.size \in 1 .. MaxRequest /\ c.done \in {FALSE}
  BY Zenon, <1>1
<1>3. /\ c.offs \in Nat /\ c.size \in 0 .. MaxRequest
      /\ c.done \in BOOLEAN /\ ~c.done
  <2>1. c.done \in BOOLEAN /\ ~c.done
    BY Zenon, <1>2
  <2>. QED
    BY <1>2, <2>1
<1>4. c \in Request
  BY Zenon, <1>2, <1>3 DEF Request
<1>. QED
  BY <1>3, <1>4 DEF Chunks

\* The piece to be sent is as long as a bulk transfer, or the rest.
LEMMA Piece ==
  ASSUME buf \in [from : Nat, left : 0 .. MaxRequest]
  PROVE /\ PieceLength \in 0 .. buf.left
        /\ buf.left > 0 => PieceLength > 0
        /\ Advance => buf' \in [from : Nat, left : 0 .. MaxRequest]
<1>1. PieceLength \in 0 .. buf.left /\ (buf.left > 0 => PieceLength > 0)
  BY BulkAssumption DEF PieceLength, MinOf
<1>2. Advance => buf' \in [from : Nat, left : 0 .. MaxRequest]
  BY <1>1 DEF Advance
<1>. QED
  BY <1>1, <1>2

\* The piece of U-Boot that is sent: cut, or empty, where U-Boot ends.
LEMMA TplPiece ==
  ASSUME buf \in [from : Nat, left : 0 .. MaxRequest], setup \in Setups
  PROVE /\ TplSlice(buf.from, PieceLength) \in [item : Items, from : Nat, len : Nat]
        /\ TplSlice(buf.from, PieceLength).item = TplItem
        /\ TplSlice(buf.from, PieceLength).from = buf.from
        /\ TplSlice(buf.from, PieceLength).len <= PieceLength
        /\ \/ TplSlice(buf.from, PieceLength).len = PieceLength
           \/ buf.from + PieceLength >= setup.ubootSize
        /\ TplSlice(buf.from, PieceLength).len = 0 \/ buf.from < setup.ubootSize
<1>. DEFINE n == PieceLength
            k == TplSlice(buf.from, n).len
<1>1. n \in Nat /\ buf.from \in Nat /\ setup.ubootSize \in Nat
  BY Piece, SetupsAssumption
<1>2. TplSlice(buf.from, n) = [item |-> TplItem, from |-> buf.from, len |-> k]
  BY DEF TplSlice, Slice
<1>3. k = IF buf.from >= setup.ubootSize THEN 0 ELSE MinOf(n, setup.ubootSize - buf.from)
  BY Zenon DEF TplSlice, Slice
<1>. HIDE DEF k, n
<1>4. k \in Nat /\ k <= n /\ (k = n \/ buf.from + n >= setup.ubootSize)
      /\ (k = 0 \/ buf.from < setup.ubootSize)
  BY <1>1, <1>3 DEF MinOf
<1>5. TplItem \in Items
  BY DEF TplItem, Items
<1>6. TplSlice(buf.from, n) \in [item : Items, from : Nat, len : Nat]
  BY <1>1, <1>2, <1>4, <1>5
<1>. QED
  BY <1>1, <1>2, <1>4, <1>6 DEF k, n

\* The bytes of a slice, one by one.
LEMMA Bytes ==
  ASSUME NEW d \in [item : Items, from : Nat, len : Nat]
  PROVE /\ BytesOf(d) \in Seq(Items \X Nat) /\ Len(BytesOf(d)) = d.len
        /\ \A i \in 1 .. d.len : BytesOf(d)[i] = <<d.item, d.from + i - 1>>
<1>1. \A i \in 1 .. d.len : <<d.item, d.from + i - 1>> \in Items \X Nat
  OBVIOUS
<1>. QED
  BY <1>1 DEF BytesOf

\* A slice of an item is no corruption.
LEMMA NoCorruption ==
  ASSUME NEW d \in [item : Items, from : Nat, len : Nat], d.item # Bad[1]
  PROVE Bad \notin Sum(BytesOf(d))
<1>1. DOMAIN BytesOf(d) = 1 .. d.len
      /\ \A i \in DOMAIN BytesOf(d) : BytesOf(d)[i] = <<d.item, d.from + i - 1>>
  BY DEF BytesOf
<1>2. Sum(BytesOf(d)) = {BytesOf(d)[i] : i \in DOMAIN BytesOf(d)}
  BY DEF Sum, ToSet
<1>3. \A i \in DOMAIN BytesOf(d) : BytesOf(d)[i] # Bad
  BY <1>1 DEF Bad
<1>. QED
  BY <1>2, <1>3

\* What the device received keeps its form.
LEMMA ReceivedShape ==
  ASSUME ShapeInv, DevNext
  PROVE req' \in Request /\ rcvd' \in Seq(Items \X Nat)
<1>0. req \in Request /\ rcvd \in Seq(Items \X Nat)
  BY DEF ShapeInv
<1>1. CASE UNCHANGED <<req, rcvd>>
  BY <1>0, <1>1
<1>2. CASE DevImage \/ DevBlock
  <2>1. UNCHANGED req /\ (UNCHANGED rcvd \/ rcvd' = rcvd \o BytesOf(out[1].arg))
        /\ Pending("data")
    BY <1>2 DEF DevImage, DevBlock, Take, Arg, Pending
  <2>2. BytesOf(out[1].arg) \in Seq(Items \X Nat)
    BY <2>1, Bytes DEF ShapeInv
  <2>. QED
    BY <1>0, <2>1, <2>2, Joined
<1>3. CASE DevCbw
  <2>1. rcvd' = <<>> /\ (UNCHANGED req \/ req' \in Chunks(Unloaded))
    BY <1>3 DEF DevCbw
  <2>2. Unloaded \subseteq Nat
    BY DEF ShapeInv, Unloaded
  <2>3. \A c \in Chunks(Unloaded) : c \in Request
    BY <2>2, ChunkIn
  <2>. QED
    BY <1>0, <2>1, <2>3
<1>4. CASE DevMwrite
  <2>. DEFINE missing == (0 .. PartSize - 1) \ written
  <2>1. \/ UNCHANGED <<req, rcvd>>
        \/ rcvd' = <<>> /\ req' \in Chunks(missing)
    BY <1>4 DEF DevMwrite
  <2>2. missing \subseteq Nat
    OBVIOUS
  <2>. HIDE DEF missing
  <2>3. \A c \in Chunks(missing) : c \in Request
    BY <2>2, ChunkIn
  <2>. QED
    <3>1. CASE UNCHANGED <<req, rcvd>>
      BY <1>0, <3>1
    <3>2. CASE rcvd' = <<>> /\ req' \in Chunks(missing)
      BY <2>3, <3>2
    <3>. QED
      BY <2>1, <3>1, <3>2
<1>5. CASE DevCorrupt
  <2>1. UNCHANGED req /\ \E i \in DOMAIN rcvd : rcvd' = [rcvd EXCEPT ![i] = Bad]
    BY <1>5 DEF DevCorrupt
  <2>2. Bad \in Items \X Nat
    BY DEF Bad, Items
  <2>3. PICK i \in DOMAIN rcvd : rcvd' = [rcvd EXCEPT ![i] = Bad]
    BY <2>1
  <2>4. \A b \in Items \X Nat : [rcvd EXCEPT ![i] = b] \in Seq(Items \X Nat)
    BY <1>0, <2>3
  <2>. QED
    BY <1>0, <2>1, <2>2, <2>3, <2>4
<1>. QED
  BY <1>1, <1>2, <1>3, <1>4, <1>5, ReceiveSteps

\* What is committed was received, byte by byte.
LEMMA Committed ==
  ASSUME ShapeInv, DevSum, ~UNCHANGED loaded
  PROVE /\ dstage = "SPL" /\ Pending("sum") /\ out[1].arg.bytes = Sum(rcvd)
        /\ DOMAIN loaded' = DOMAIN loaded
        /\ \A o \in DOMAIN loaded :
             \/ loaded'[o] = loaded[o]
             \/ \E i \in DOMAIN rcvd : i = o - req.offs + 1 /\ loaded'[o] = rcvd[i]
<1>1. /\ dstage = "SPL" /\ Pending("sum") /\ out[1].arg.bytes = Sum(rcvd)
      /\ Len(rcvd) = req.size
      /\ loaded' = [o \in DOMAIN loaded |->
                       IF o \in ChunkPlace THEN rcvd[o - req.offs + 1] ELSE loaded[o]]
  BY DEF DevSum, Commit, Take, Pending, Arg
<1>2. ASSUME NEW o \in DOMAIN loaded, o \in ChunkPlace
      PROVE o - req.offs + 1 \in DOMAIN rcvd
  <2>1. req.offs \in Nat /\ req.size \in Nat /\ DOMAIN rcvd = 1 .. Len(rcvd)
    BY DEF ShapeInv, Request
  <2>2. o \in Int /\ req.offs <= o /\ o <= req.offs + req.size - 1
    BY <1>2, <2>1 DEF ChunkPlace
  <2>3. PICK p \in Nat, z \in Nat : p = req.offs /\ z = req.size
    BY <2>1
  <2>4. o - p + 1 \in 1 .. z
    BY <2>2, <2>3
  <2>5. DOMAIN rcvd = 1 .. z
    BY <1>1, <2>1, <2>3
  <2>. QED
    BY <2>3, <2>4, <2>5
<1>. QED
  BY <1>1, <1>2

\* Every step keeps the form of requests, pieces and what is received.
LEMMA ShapeNext ==
  ASSUME IInv, ShapeInv, Next
  PROVE ShapeInv'
<1>0. SectionInv /\ FlightInv /\ ShapeInv
  BY DEF IInv
<1>1. CASE DevNext /\ UNCHANGED hostVars
  <2>1. setup' \in Setups /\ req' \in Request /\ rcvd' \in Seq(Items \X Nat)
    BY <1>1, DevFrame, ReceivedShape DEF ShapeInv
  <2>2. loaded' \in [0 .. UbootSize - 1 -> Items \X Nat]
    <3>1. CASE UNCHANGED loaded
      BY <3>1 DEF ShapeInv
    <3>2. CASE DevSum /\ ~UNCHANGED loaded
      <4>1. DOMAIN loaded' = 0 .. UbootSize - 1
        BY <3>2, Committed DEF ShapeInv
      <4>2. \A o \in 0 .. UbootSize - 1 : loaded'[o] \in Items \X Nat
        <5>1. /\ \A o \in 0 .. UbootSize - 1 : loaded[o] \in Items \X Nat
              /\ \A i \in DOMAIN rcvd : rcvd[i] \in Items \X Nat
              /\ DOMAIN loaded = 0 .. UbootSize - 1
          BY DEF ShapeInv
        <5>. QED
          BY <3>2, <5>1, Committed
      <4>3. loaded' = [o \in 0 .. UbootSize - 1 |-> loaded'[o]]
        BY <3>2, <4>1 DEF DevSum, Commit
      <4>. QED
        BY <4>2, <4>3
    <3>. QED
      BY <1>1, <3>1, <3>2, LoadSteps
  <2>3. buf' \in [from : Nat, left : 0 .. MaxRequest] /\ UNCHANGED <<sec, ip, payload>>
        /\ (Pending("data")' => out'[1].arg \in [item : Items, from : Nat, len : Nat])
    BY <1>1, DevOut DEF ShapeInv, hostVars, Pending
  <2>4. sec = "cbw" /\ Replied("OKAY")' => inn'[1].payload \in Request
    <3>1. CASE DevCbw
      <4>1. Unloaded \subseteq Nat
        BY DEF ShapeInv, Unloaded
      <4>2. CASE Reply("OKAY", [NoRequest EXCEPT !.done = TRUE])
        <5>1. [NoRequest EXCEPT !.done = TRUE] = [offs |-> 0, size |-> 0, done |-> TRUE]
          <6>1. \A a, b : [[offs |-> 0, size |-> 0, done |-> a] EXCEPT !.done = b]
                             = [offs |-> 0, size |-> 0, done |-> b]
            OBVIOUS
          <6>. QED
            BY Zenon, <6>1 DEF NoRequest
        <5>2. 0 \in Nat /\ 0 \in 0 .. MaxRequest /\ TRUE \in BOOLEAN
          OBVIOUS
        <5>3. [NoRequest EXCEPT !.done = TRUE] \in Request
          BY Zenon, <5>1, <5>2 DEF Request
        <5>. QED
          BY <4>2, <5>3 DEF Reply
      <4>3. ASSUME NEW c \in Chunks(Unloaded), Reply("OKAY", c)
            PROVE inn'[1].payload \in Request
        BY <4>1, <4>3, ChunkIn DEF Reply
      <4>. QED
        BY <3>1, <4>2, <4>3 DEF DevCbw
    <3>2. CASE ~DevCbw
      BY <1>1, <3>2, StageAnswers DEF ShapeInv, Replied
    <3>. QED
      BY <3>1, <3>2
  <2>5. Replied("DATAOUT")' => inn'[1].payload \in Request
    <3>1. CASE DevMwrite
      <4>1. (0 .. PartSize - 1) \ written \subseteq Nat
        OBVIOUS
      <4>2. CASE Plain("OKAY")
        BY <4>2 DEF Plain, Reply, Replied
      <4>3. ASSUME NEW c \in Chunks((0 .. PartSize - 1) \ written), Reply("DATAOUT", c)
            PROVE inn'[1].payload \in Request
        BY <4>1, <4>3, ChunkIn DEF Reply
      <4>. QED
        BY <3>1, <4>2, <4>3 DEF DevMwrite
    <3>2. CASE UNCHANGED inn
      BY <3>2 DEF ShapeInv, Replied
    <3>. QED
      BY <1>1, <3>1, <3>2, DataoutSteps
  <2>. QED
    BY <2>1, <2>2, <2>3, <2>4, <2>5 DEF ShapeInv
<1>2. CASE HostNext
  <2>1. /\ UNCHANGED <<setup, req, rcvd, loaded>> /\ setup \in Setups
        /\ buf \in [from : Nat, left : 0 .. MaxRequest]
    BY <1>2, HostFrame DEF ShapeInv, devVars, storage
  <2>2. CASE HostSend
    <3>1. /\ UNCHANGED <<buf, inn, sec, ip, payload>> /\ ip \in Nat \ {0} /\ ip <= Len(Script)
          /\ out'[1].op = Row.op /\ out'[1].arg = Row.arg
      BY <1>0, <2>2 DEF HostSend, Write, FlightInv
    <3>2. Row.op = "data" => Row.arg \in [item : Items, from : Nat, len : Nat]
      <4>1. Slice(DdrItem(secure), 0, setup.splSize) \in [item : Items, from : Nat, len : Nat]
        BY <2>1, SetupsAssumption DEF Slice, DdrItem, Items
      <4>. QED
        BY <1>0, <2>1, <3>1, <4>1, Rows, TplPiece
    <3>. QED
      BY <2>1, <3>1, <3>2 DEF ShapeInv, Pending, Replied
  <2>3. CASE HostReceive
    <3>1. /\ UNCHANGED <<buf, out, sec>> /\ payload' = inn[1].payload /\ inn' = <<>>
          /\ inn # <<>> /\ inn[1].header = Row.expect /\ ip \in Nat \ {0} /\ ip <= Len(Script)
      BY <1>0, <2>3 DEF HostReceive, Expected, FlightInv
    <3>2. sec = "cbw" => Replied("OKAY")
      BY <1>0, <3>1, Rows DEF Replied
    <3>. QED
      BY <2>1, <3>1, <3>2 DEF ShapeInv, Pending, Replied
  <2>4. CASE HostUnexpected \/ HostUsbError
    BY <2>1, <2>4 DEF HostUnexpected, HostUsbError, Fail, Goto, ShapeInv, Pending, Replied
  <2>5. CASE Moving
    <3>1. /\ out' = <<>> /\ (inn' # <<>> => inn'[1].header = "FAIL") /\ ip' = 1
      BY <2>5, MovingIsLocal
    <3>2. buf' \in [from : Nat, left : 0 .. MaxRequest]
      <4>1. CASE HostCbw
        <5>1. ip > 1
          BY <1>0, <4>1, Lengths DEF HostCbw, SectionOver, FlightInv
        <5>2. payload \in Request
          BY <4>1, <5>1 DEF HostCbw, ShapeInv
        <5>. QED
          BY <2>1, <4>1, <5>2 DEF HostCbw, ReadFrom, Request
      <4>2. CASE HostPiece
        BY <2>1, <4>2, Piece DEF HostPiece
      <4>3. CASE ~HostCbw /\ ~HostPiece
        BY <2>1, <2>5, <4>3 DEF Moving, HostFind, HostProbed, HostNextSection, HostWaited,
           HostSecured, HostBl2, HostWritten, HostVerified
      <4>. QED
        BY <4>1, <4>2, <4>3
    <3>. QED
      BY <2>1, <3>1, <3>2 DEF ShapeInv, Pending, Replied
  <2>6. CASE HostBusy
    BY <2>1, <2>6 DEF HostBusy, ShapeInv, Pending, Replied
  <2>7. CASE HostDataOut
    <3>1. sec' = "blocks" /\ inn' = <<>> /\ UNCHANGED out /\ Replied("DATAOUT")
          /\ buf' = [from |-> inn[1].payload.offs, left |-> inn[1].payload.size]
      BY <2>7 DEF HostDataOut, Goto, Replied, ReadFrom
    <3>2. inn[1].payload \in Request
      BY <3>1 DEF ShapeInv
    <3>. QED
      BY <2>1, <3>1, <3>2 DEF ShapeInv, Pending, Replied, Request
  <2>8. CASE HostBlock
    <3>1. buf' \in [from : Nat, left : 0 .. MaxRequest] /\ sec' # "cbw" /\ UNCHANGED inn
      BY <2>1, <2>8, Piece DEF HostBlock, Goto
    <3>2. Pending("data")' => out'[1].arg \in [item : Items, from : Nat, len : Nat]
      <4>1. CASE UNCHANGED out
        BY <4>1 DEF ShapeInv, Pending
      <4>2. CASE out' = <<[op |-> "data", arg |-> Slice(PartItem(part), buf.from, PieceLength)]>>
        <5>1. part \in Nat /\ PieceLength \in Nat
          BY <1>0, <2>1, Piece DEF SectionInv
        <5>. QED
          BY <2>1, <4>2, <5>1 DEF Slice, PartItem, Items
      <4>. QED
        BY <2>8, <4>1, <4>2 DEF HostBlock, Write
    <3>. QED
      BY <2>1, <3>1, <3>2 DEF ShapeInv, Replied
  <2>. QED
    BY <1>2, <2>2, <2>3, <2>4, <2>5, <2>6, <2>7, <2>8 DEF HostNext, Moving
<1>. QED
  BY <1>1, <1>2 DEF Next

Early == {"find", "notfound", "probe", "rom"} \cup RomStarts

\* Before the SPL is asked for anything, nothing is sent that it would keep.
LEMMA EarlyQuiet ==
  ASSUME IInv, EarlyInv, DevNext, sec \in Early, ~UNCHANGED rcvd
  PROVE rcvd' = <<>>
<1>0. SectionInv /\ FlightInv /\ ModeInv /\ CurInv /\ UntouchedInv
  BY DEF IInv
<1>1. rcvd = <<>>
  BY DEF EarlyInv, Early
<1>2. CASE DevImage
  <2>1. mode = "image" /\ dstage # "ROM" /\ out # <<>> /\ out[1].op = "data" /\ inn = <<>>
    BY <1>2 DEF DevImage, Take
  <2>2. dstage = "SPL"
    BY <2>1 DEF EarlyInv
  <2>3. awaiting /\ out[1].op = Row.op /\ ip \in Nat \ {0} /\ ip <= Len(Script)
    BY <1>0, <2>1, <2>2 DEF FlightInv, EarlyInv, Early, RomStarts
  <2>4. sec \in {"rom", "probe"}
    <3>1. Len(Script) # 0
      BY <2>3
    <3>. QED
      BY <2>2, <3>1, Lengths DEF EarlyInv, Early, Ended
  <2>5. sec # "probe"
    BY <1>0, <2>1, <2>3, Rows
  <2>6. sec = "rom" => ip = Len(Script) /\ Replied("OKAY")
    <3>1. ~(ip > Len(Script))
      BY <2>3
    <3>. QED
      BY <2>2, <3>1 DEF EarlyInv
  <2>. QED
    BY <2>1, <2>4, <2>5, <2>6 DEF Replied
<1>3. CASE DevBlock
  <2>1. mode = "blocks" /\ sec \in BeforeParts \ {"tpl"}
    BY <1>3 DEF DevBlock, Early, RomStarts, BeforeParts
  <2>2. cur = 0 /\ cur = part /\ part = 1
    BY <1>0, <2>1 DEF UntouchedInv, BeforeErase, CurInv, SectionInv, BeforeParts
  <2>. QED
    BY <2>2
<1>4. CASE DevCbw \/ DevMwrite
  BY <1>4 DEF DevCbw, DevMwrite
<1>5. CASE DevCorrupt
  <2>1. DOMAIN rcvd = {}
    BY <1>1
  <2>. QED
    BY <1>5, <2>1 DEF DevCorrupt
<1>. QED
  BY <1>2, <1>3, <1>4, <1>5, ReceiveSteps

\* The device takes bytes only in the stages that do.
LEMMA ModeStage ==
  ASSUME IInv, EarlyInv, DevNext
  PROVE /\ mode' = "blocks" => dstage' = "TPL"
        /\ mode' = "image" => dstage' \in {"ROM", "SPL"}
<1>0. PacketInv /\ ModeInv
  BY DEF IInv
<1>1. CASE UNCHANGED <<mode, dstage>>
  BY <1>1 DEF EarlyInv
<1>2. CASE DevSetvar
  BY <1>0, <1>2 DEF DevSetvar, Take, Arg, PacketInv, Pending
<1>3. CASE DevBurnsteps \/ DevImage \/ DevSum \/ DevVerify \/ DevVerified
  BY <1>3 DEF DevBurnsteps, DevImage, DevSum, DevVerify, DevVerified
<1>4. CASE DevDownload
  BY <1>0, <1>4, Taken DEF DevDownload, Take
<1>5. CASE DevBoot
  BY <1>0, <1>5, Taken DEF DevBoot, Take
<1>6. CASE DevMwrite
  BY <1>0, <1>6, Taken DEF DevMwrite, Take
<1>7. CASE DevBlock
  BY <1>7 DEF DevBlock, EarlyInv
<1>8. CASE DevLeave \/ DevCrash \/ DevRefuse \/ DevReject
  BY <1>8, RejectedReply DEF DevLeave, DevCrash, DevRefuse, DevReject
<1>9. CASE DevAppear
  BY <1>0, <1>9 DEF DevAppear, ModeInv
<1>10. CASE DevIdentify \/ DevGetvar \/ DevCbw \/ DevDiskInitial \/ DevOemMwrite \/ DevReboot
            \/ DevInfo \/ DevCorrupt \/ DevMisstore
  BY <1>1, <1>10 DEF DevIdentify, DevGetvar, DevCbw, DevDiskInitial, DevOemMwrite, DevReboot,
     DevInfo, DevCorrupt, DevMisstore, devVars
<1>. QED
  BY <1>2, <1>3, <1>4, <1>5, <1>6, <1>7, <1>8, <1>9, <1>10 DEF DevNext, DevStep

\* No step of the device starts the SPL where the host did not.
LEMMA DevEarly ==
  ASSUME IInv, LeavingInv, EarlyInv, DevNext, UNCHANGED hostVars
  PROVE EarlyInv'
<1>0. /\ UNCHANGED <<sec, ip, awaiting, payload, secure, setup>> /\ Script' = Script
      /\ SectionInv /\ FlightInv /\ ModeInv
  BY DevFrame, SameScript DEF IInv, hostVars
<1>1. sec \in Early => rcvd' = <<>>
  BY EarlyQuiet DEF EarlyInv, Early
<1>2. Pending("boot")' => rcvd' = <<>>
  <2>1. Pending("boot")' => Pending("boot") /\ UNCHANGED out /\ out # <<>>
    BY DevOut DEF Pending
  <2>2. Pending("boot") => rcvd = <<>>
    BY DEF EarlyInv
  <2>3. UNCHANGED out /\ out # <<>> => UNCHANGED rcvd \/ DevCorrupt
    BY ReceiveSteps DEF DevImage, DevBlock, DevCbw, DevMwrite, Take
  <2>4. rcvd = <<>> /\ DevCorrupt => UNCHANGED rcvd
    BY DEF DevCorrupt
  <2>. QED
    BY <2>1, <2>2, <2>3, <2>4
<1>3. ASSUME dstage' = "SPL"
      PROVE /\ sec = "probe" /\ Replied("OKAY")' => inn'[1].payload.stage = "SPL"
            /\ sec = "probe" /\ ip > 1 => payload.stage = "SPL"
            /\ sec \notin RomStarts
            /\ sec = "rom" => ip > Len(Script) \/ (ip = Len(Script) /\ Replied("OKAY")')
  <2>1. CASE DevBoot
    <3>1. Pending("boot") /\ inn' # <<>> /\ inn'[1].header = "OKAY"
      BY <2>1 DEF DevBoot, Take, Plain, Reply, Pending
    <3>2. sec \in {"rom", "failed"}
      BY <3>1 DEF LeavingInv
    <3>3. sec = "rom" => ip = Len(Script)
      BY <1>0, <3>1, Rows DEF FlightInv, Pending
    <3>. QED
      BY <3>1, <3>2, <3>3 DEF Replied, RomStarts
  <2>2. CASE dstage = "SPL" /\ ~DevCrash
    <3>1. inn # <<>> => UNCHANGED inn
      BY <2>2, AnswerStays
    <3>2. CASE DevIdentify
      <4>1. inn' = <<[header |-> "OKAY", payload |-> [stage |-> "SPL"]]>> /\ inn = <<>>
        BY <2>2, <3>2 DEF DevIdentify, Take, Reply
      <4>. QED
        BY <2>2, <4>1 DEF EarlyInv, Replied
    <3>3. CASE ~DevIdentify
      BY <2>2, <3>1, <3>3, StageAnswers DEF EarlyInv, Replied
    <3>. QED
      BY <3>2, <3>3
  <2>3. dstage' = "SPL" => DevBoot \/ (dstage = "SPL" /\ ~DevCrash)
    BY DevStays DEF DevCbw, DevReboot, DevLeave, DevAppear, DevCrash
  <2>. QED
    BY <1>3, <2>1, <2>2, <2>3
<1>4. sec \in {"rom", "bl2", "cbw", "piece", "splSum"} => secure = setup.secure
  BY DEF EarlyInv
<1>. QED
  BY <1>0, <1>1, <1>2, <1>3, <1>4, ModeStage DEF EarlyInv, Early

\* Every step leaves the SPL's chunks to the sections that send them.
LEMMA EarlyNext ==
  ASSUME IInv, LeavingInv, EarlyInv, Next
  PROVE EarlyInv'
<1>0. SectionInv /\ FlightInv /\ ip \in Nat \ {0}
  BY DEF IInv, FlightInv
<1>1. CASE DevNext /\ UNCHANGED hostVars
  BY <1>1, DevEarly
<1>2. CASE HostNext
  <2>1. UNCHANGED <<setup, dstage, mode, rcvd>>
    BY <1>2, HostFrame DEF devVars, storage
  <2>2. CASE HostSend
    <3>1. /\ UNCHANGED <<inn, sec, ip, payload, secure>> /\ ip <= Len(Script)
          /\ out'[1].op = Row.op /\ Script' = Script
      BY <2>2, SameScript DEF HostSend, Write
    <3>2. Row.op = "boot" => sec = "rom"
      BY <1>0, <3>1, Rows
    <3>. QED
      BY <2>1, <3>1, <3>2 DEF EarlyInv, Pending, Replied
  <2>3. CASE HostReceive
    <3>1. /\ UNCHANGED <<out, sec, secure>> /\ payload' = inn[1].payload /\ inn' = <<>>
          /\ inn # <<>> /\ inn[1].header = Row.expect /\ ip <= Len(Script) /\ ip' = ip + 1
          /\ Script' = Script
      BY <1>0, <2>3, SameScript DEF HostReceive, Expected, FlightInv
    <3>2. sec = "probe" => Replied("OKAY")
      BY <1>0, <3>1, Rows DEF Replied
    <3>3. dstage = "SPL" /\ sec = "rom" => ip' > Len(Script)
      <4>1. ~(ip > Len(Script))
        BY <1>0, <3>1
      <4>2. dstage = "SPL" /\ sec = "rom" => ip = Len(Script)
        BY <4>1 DEF EarlyInv
      <4>. QED
        BY <1>0, <3>1, <4>2
    <3>4. dstage = "SPL" =>
            /\ sec = "probe" => inn[1].payload.stage = "SPL"
            /\ sec \notin RomStarts
      BY <3>2 DEF EarlyInv
    <3>5. ~Replied("OKAY")'
      BY <3>1 DEF Replied
    <3>. QED
      BY <2>1, <3>1, <3>3, <3>4, <3>5 DEF EarlyInv, Pending
  <2>4. CASE HostUnexpected \/ HostUsbError
    BY <2>1, <2>4 DEF HostUnexpected, HostUsbError, Fail, Goto, EarlyInv, Pending, RomStarts
  <2>5. CASE HostBusy \/ HostDataOut \/ HostBlock
    <3>1. sec \in {"verify", "mwrite", "blocks"} /\ sec' \in {"verify", "blocks", "tplSum"}
      BY <2>5 DEF HostBusy, HostDataOut, HostBlock, Goto
    <3>2. Pending("boot")' => Pending("boot")
      BY <2>5 DEF HostBusy, HostDataOut, HostBlock, Write, Pending
    <3>. QED
      BY <2>1, <3>1, <3>2 DEF EarlyInv, RomStarts
  <2>6. CASE Moving
    <3>1. out' = <<>> /\ (inn' # <<>> => inn'[1].header = "FAIL") /\ ip' = 1
      BY <2>6, MovingIsLocal
    <3>2. \/ sec = "find" /\ sec' \in {"probe", "notfound"} /\ UNCHANGED secure
          \/ sec = "probe" /\ sec' \in {"toRom", "secure"} /\ dstage # "SPL"
          \/ sec \in RomStarts /\ sec' \in RomStarts \cup {"failed"}
          \/ sec = "secure" /\ sec' = "rom" /\ secure' = setup.secure
          \/ /\ sec' \notin Early
             /\ sec' \in {"bl2", "cbw", "piece", "splSum"} =>
                  sec \in {"rom", "bl2", "cbw", "piece", "splSum"} /\ UNCHANGED secure
      <4>. USE DEF Early, RomStarts
      <4>1. CASE HostFind
        BY <4>1 DEF HostFind, Goto
      <4>2. CASE HostProbed
        <5>1. sec = "probe" /\ ip > 1
          <6>1. sec = "probe" /\ ip > Len(Script) /\ Script = <<Identify(AnyStage)>>
            BY <4>2, Scripts DEF HostProbed, SectionOver
          <6>2. Len(Script) = 1
            BY <6>1
          <6>. QED
            BY <1>0, <6>1, <6>2
        <5>2. CASE dstage = "SPL"
          <6>1. payload.stage = "SPL"
            BY <5>1, <5>2 DEF EarlyInv
          <6>2. payload.stage # "TPL" /\ payload.stage # "ROM"
            BY <6>1
          <6>3. Goto("failed")
            BY Zenon, <4>2, <6>2 DEF HostProbed
          <6>. QED
            BY <6>3 DEF Goto
        <5>3. Goto("toRom") \/ Goto("secure") \/ Goto("failed")
          BY Zenon, <4>2 DEF HostProbed
        <5>. QED
          BY <5>1, <5>2, <5>3 DEF Goto
      <4>3. CASE HostNextSection
        <5>1. CASE sec = "tpl" /\ Goto(NextPartition(part))
          BY <5>1, Nexts DEF Goto
        <5>. QED
          BY <4>3, <5>1, Moves DEF Goto, HostNextSection
      <4>4. CASE HostWaited \/ HostSecured
        BY <4>4 DEF HostWaited, HostSecured, Goto
      <4>5. CASE HostBl2 \/ HostCbw \/ HostPiece
        BY <4>5 DEF HostBl2, HostCbw, HostPiece, Goto
      <4>6. CASE HostWritten
        BY <4>6 DEF HostWritten, Goto
      <4>7. CASE HostVerified
        BY <4>7, Nexts DEF HostVerified, Goto
      <4>. QED
        BY <2>6, <4>1, <4>2, <4>3, <4>4, <4>5, <4>6, <4>7 DEF Moving
    <3>3. ~Pending("boot")' /\ ~Replied("OKAY")' /\ ~(ip' > 1)
      BY <3>1 DEF Pending, Replied
    <3>. QED
      BY <2>1, <3>2, <3>3 DEF EarlyInv, Early, RomStarts
  <2>. QED
    BY <1>2, <2>2, <2>3, <2>4, <2>5, <2>6 DEF HostNext, Moving
<1>. QED
  BY <1>1, <1>2 DEF Next

\* While a packet waits the device does not begin to take bytes.
LEMMA WaitingMode ==
  ASSUME DevNext, out' # <<>>
  PROVE UNCHANGED <<out, mode>> \/ mode' = "cmd"
BY RejectedReply
   DEF DevNext, DevStep, DevIdentify, DevGetvar, DevSetvar, DevBurnsteps, DevDownload,
       DevImage, DevBoot, DevCbw, DevSum, DevDiskInitial, DevOemMwrite, DevMwrite, DevBlock,
       DevVerify, DevVerified, DevInfo, DevReboot, DevLeave, DevAppear, DevRefuse, DevReject,
       DevCrash, DevCorrupt, DevMisstore, Take, devVars

\* A piece is announced, then sent.
LEMMA PieceRows ==
  ASSUME SectionInv, sec = "piece", ip \in Nat \ {0}, ip <= Len(Script)
  PROVE \/ ip = 1 /\ Row.op = "download" /\ Row.expect = "DATA"
        \/ ip = 2 /\ Row.op = "data" /\ Row.expect = "OKAY"
BY Rows

\* A piece is answered with OKAY when its bytes have been taken.
LEMMA PieceAnswers ==
  ASSUME IInv, DevNext, sec = "piece", ip = 2, Replied("OKAY")'
  PROVE UNCHANGED inn \/ DevImage
<1>0. SectionInv /\ FlightInv /\ ModeInv
  BY DEF IInv
<1>1. ASSUME out # <<>> PROVE out[1].op = "data"
  <2>1. awaiting /\ out[1].op = Row.op
    BY <1>0, <1>1 DEF FlightInv
  <2>2. ip \in Nat \ {0} /\ ip <= Len(Script)
    BY <1>0, <2>1 DEF FlightInv
  <2>3. Row.op = "data"
    BY <1>0, <2>2, PieceRows
  <2>. QED
    BY <2>1, <2>3
<1>2. CASE DevIdentify \/ DevGetvar \/ DevSetvar \/ DevBurnsteps \/ DevDownload
  BY <1>1, <1>2 DEF DevIdentify, DevGetvar, DevSetvar, DevBurnsteps, DevDownload, Take
<1>3. CASE DevBoot \/ DevCbw \/ DevSum \/ DevDiskInitial \/ DevOemMwrite \/ DevMwrite \/ DevReboot
  BY <1>1, <1>3 DEF DevBoot, DevCbw, DevSum, DevDiskInitial, DevOemMwrite, DevMwrite,
                    DevReboot, Take
<1>4. CASE DevReject \/ DevRefuse
  BY <1>4, RejectedReply DEF DevReject, DevRefuse, Replied
<1>5. CASE DevInfo \/ DevVerified
  BY <1>0, <1>5 DEF DevInfo, DevVerified, ModeInv
<1>6. CASE DevBlock \/ DevVerify \/ DevLeave \/ DevAppear \/ DevCrash \/ DevCorrupt
           \/ DevMisstore
  BY <1>6 DEF DevBlock, DevVerify, DevLeave, DevAppear, DevCrash, DevCorrupt, DevMisstore,
              Replied
<1>. QED
  BY <1>2, <1>3, <1>4, <1>5, <1>6 DEF DevNext, DevStep

\* The bytes the SPL takes continue what it received.
LEMMA Continues ==
  ASSUME ShapeInv, ChunkInv, DevImage, dstage = "SPL"
  PROVE /\ UNCHANGED <<setup, dstage, req>> /\ mode' = "cmd" /\ out' = <<>>
        /\ rcvd' \in Seq(Items \X Nat) /\ Len(rcvd') = Len(rcvd) + out[1].arg.len
        /\ \A i \in DOMAIN rcvd' : rcvd'[i] \in {Bad, RightByte(req.offs + i - 1)}
<1>. DEFINE d == out[1].arg
<1>1. /\ UNCHANGED <<setup, dstage, req>> /\ mode' = "cmd" /\ out' = <<>> /\ mode = "image"
      /\ rcvd' = rcvd \o BytesOf(d) /\ Pending("data")
  BY DEF DevImage, Take, Arg, Pending
<1>2. d \in [item : Items, from : Nat, len : Nat] /\ rcvd \in Seq(Items \X Nat)
      /\ req.offs \in Nat
  BY <1>1 DEF ShapeInv, Request
<1>3. d.item = RightByte(0)[1] /\ (d.len = 0 \/ d.from = req.offs + Len(rcvd))
  BY <1>1 DEF ChunkInv
<1>4. \A i \in DOMAIN rcvd : rcvd[i] \in {Bad, RightByte(req.offs + i - 1)}
  BY DEF ChunkInv
<1>. HIDE DEF d
<1>5. /\ BytesOf(d) \in Seq(Items \X Nat) /\ Len(BytesOf(d)) = d.len
      /\ \A i \in 1 .. d.len : BytesOf(d)[i] = <<d.item, d.from + i - 1>>
  BY <1>2, Bytes
<1>6. rcvd' \in Seq(Items \X Nat) /\ Len(rcvd') = Len(rcvd) + d.len
  BY <1>1, <1>2, <1>5, Joined
<1>7. ASSUME NEW i \in DOMAIN rcvd'
      PROVE rcvd'[i] \in {Bad, RightByte(req.offs + i - 1)}
  <2>1. i \in 1 .. Len(rcvd) + d.len /\ Len(rcvd) \in Nat /\ d.len \in Nat
        /\ d.from \in Nat
    BY <1>2, <1>6, <1>7
  <2>2. CASE i <= Len(rcvd)
    <3>1. rcvd'[i] = rcvd[i] /\ i \in DOMAIN rcvd
      BY <1>1, <1>2, <1>5, <2>1, <2>2, ConcatProperties
    <3>. QED
      BY <1>4, <3>1
  <2>3. CASE i > Len(rcvd)
    <3>1. rcvd'[i] = BytesOf(d)[i - Len(rcvd)] /\ i - Len(rcvd) \in 1 .. d.len
      BY <1>1, <1>2, <1>5, <2>1, <2>3, ConcatProperties
    <3>2. BytesOf(d)[i - Len(rcvd)] = <<d.item, d.from + (i - Len(rcvd)) - 1>>
      BY <1>5, <3>1
    <3>3. d.from + (i - Len(rcvd)) - 1 = req.offs + i - 1
      BY <1>2, <1>3, <2>1, <3>1
    <3>. QED
      BY <1>3, <3>1, <3>2, <3>3 DEF RightByte
  <2>. QED
    BY <2>1, <2>2, <2>3
<1>. QED
  BY <1>1, <1>6, <1>7 DEF d

\* Whatever the device does, the SPL's chunk is of U-Boot.
LEMMA DevChunk ==
  ASSUME IInv, LeavingInv, EarlyInv, ShapeInv, ChunkInv, DevNext, UNCHANGED hostVars
  PROVE ChunkInv'
<1>0. /\ UNCHANGED <<sec, ip, awaiting, payload, buf, setup, secure>>
      /\ SectionInv /\ FlightInv /\ ModeInv /\ ip \in Nat \ {0}
      /\ UNCHANGED <<PieceLength, TplSlice(buf.from, PieceLength)>>
  <2>1. UNCHANGED <<sec, ip, awaiting, payload, buf, setup, secure>>
    BY DevFrame DEF hostVars
  <2>. QED
    BY <2>1 DEF IInv, FlightInv, PieceLength, TplSlice, TplItem, Slice, MinOf
<1>1. sec = "piece" /\ Pending("data")' => out'[1].arg = TplSlice(buf.from, PieceLength)
  BY DevOut DEF ChunkInv, Pending
<1>. SUFFICES ASSUME dstage' = "SPL"
              PROVE (/\ \A i \in DOMAIN rcvd : rcvd[i] \in {Bad, RightByte(req.offs + i - 1)}
                     /\ sec = "cbw" /\ Replied("OKAY") /\ ~inn[1].payload.done =>
                          rcvd = <<>> /\ inn[1].payload = req
                     /\ sec = "cbw" /\ ip > 1 /\ ~payload.done => rcvd = <<>> /\ payload = req
                     /\ sec = "piece" =>
                          InStep(IF PieceToCome THEN buf.from ELSE buf.from + PieceLength)
                     /\ mode = "image" /\ Pending("data") =>
                          /\ out[1].arg.item = RightByte(0)[1]
                          /\ out[1].arg.len = 0 \/ out[1].arg.from = req.offs + Len(rcvd))'
  BY <1>0, <1>1 DEF ChunkInv
<1>2. CASE DevBoot
  <2>1. Pending("boot") /\ UNCHANGED rcvd /\ out' = <<>>
    BY <1>2 DEF DevBoot, Take, Pending, storage
  <2>2. sec \in {"rom", "failed"} /\ rcvd' = <<>>
    BY <2>1 DEF LeavingInv, EarlyInv
  <2>3. DOMAIN rcvd' = {}
    BY <2>2
  <2>. QED
    BY <1>0, <2>1, <2>2, <2>3 DEF Pending
<1>3. dstage' = "SPL" /\ ~DevBoot => dstage = "SPL" /\ ~DevCrash
  BY DevStays DEF DevCbw, DevReboot, DevLeave, DevAppear, DevCrash
<1>4. CASE DevImage /\ ~DevBoot
  <2>0. dstage = "SPL"
    BY <1>3, <1>4
  <2>1. /\ UNCHANGED req /\ out' = <<>> /\ out # <<>> /\ out[1].op = "data" /\ inn = <<>>
        /\ inn' # <<>> /\ inn'[1].header = "OKAY"
        /\ Len(rcvd') = Len(rcvd) + out[1].arg.len
        /\ \A i \in DOMAIN rcvd' : rcvd'[i] \in {Bad, RightByte(req.offs + i - 1)}
    BY <1>4, <2>0, Continues DEF DevImage, Take, Plain, Reply
  <2>2. sec # "cbw"
    <3>1. sec = "cbw" => awaiting /\ out[1].op = Row.op /\ ip <= Len(Script)
      BY <1>0, <2>1 DEF FlightInv
    <3>2. sec = "cbw" => Row.op = "cbw"
      BY <1>0, <3>1, Rows
    <3>. QED
      BY <2>1, <3>1, <3>2
  <2>3. ASSUME sec = "piece"
        PROVE InStep(IF PieceToCome THEN buf.from ELSE buf.from + PieceLength)'
    <3>1. awaiting /\ out[1].op = Row.op /\ ip <= Len(Script)
      BY <1>0, <2>1, <2>3 DEF FlightInv
    <3>2. ip = 2 /\ PieceToCome
      BY <1>0, <2>1, <2>3, <3>1, Rows DEF PieceToCome, Replied
    <3>3. ~PieceToCome'
      BY <1>0, <2>1, <3>2 DEF PieceToCome, Replied
    <3>4. out[1].arg = TplSlice(buf.from, PieceLength) /\ InStep(buf.from)
      BY <2>0, <2>1, <2>3, <3>2 DEF ChunkInv, Pending
    <3>5. /\ buf.from \in Nat /\ PieceLength \in Nat /\ req.offs \in Nat /\ Len(rcvd) \in Nat
          /\ setup.ubootSize \in Nat /\ out[1].arg.len \in Nat
      BY <2>1, Piece, SetupsAssumption DEF ShapeInv, Request, Pending
    <3>6. out[1].arg.len = PieceLength \/ buf.from + PieceLength >= setup.ubootSize
      BY <3>4, TplPiece DEF ShapeInv
    <3>7. \/ buf.from + PieceLength = req.offs + Len(rcvd')
          \/ buf.from + PieceLength >= setup.ubootSize
      BY <2>1, <3>4, <3>5, <3>6 DEF InStep
    <3>. QED
      BY <1>0, <2>1, <3>3, <3>7 DEF InStep
  <2>. QED
    BY <1>0, <2>1, <2>2, <2>3 DEF RightByte, Pending
<1>5. CASE DevCbw
  <2>1. sec \in {"cbw", "failed"} /\ out # <<>> /\ out' = <<>> /\ rcvd' = <<>>
    BY <1>0, <1>5, CbwFacts DEF LeavingInv, DevCbw, Take
  <2>2. ~inn'[1].payload.done => inn'[1].payload = req'
    <3>1. CASE Reply("OKAY", [NoRequest EXCEPT !.done = TRUE])
      BY <3>1 DEF Reply, NoRequest
    <3>2. ASSUME NEW c \in Chunks(Unloaded), req' = c, Reply("OKAY", c)
          PROVE inn'[1].payload = req'
      BY <3>2 DEF Reply
    <3>. QED
      BY <1>5, <3>1, <3>2 DEF DevCbw
  <2>3. sec = "cbw" => ip = 1
    <3>1. sec = "cbw" => ip <= Len(Script)
      BY <1>0, <2>1 DEF FlightInv
    <3>2. sec = "cbw" => ip <= 1
      BY <3>1, Lengths
    <3>. QED
      BY <1>0, <3>2
  <2>4. DOMAIN rcvd' = {}
    BY <2>1
  <2>. QED
    BY <1>0, <2>1, <2>2, <2>3, <2>4 DEF Pending
<1>6. CASE UNCHANGED req /\ Len(rcvd') = Len(rcvd) /\ (rcvd = <<>> => rcvd' = <<>>)
           /\ (\A i \in DOMAIN rcvd' : i \in DOMAIN rcvd /\ rcvd'[i] \in {Bad, rcvd[i]})
           /\ ~DevBoot /\ ~DevImage /\ ~DevCbw
  <2>0. dstage = "SPL" /\ ~DevCrash
    BY <1>3, <1>6
  <2>1. inn # <<>> => UNCHANGED inn
    BY <2>0, AnswerStays
  <2>2. \A i \in DOMAIN rcvd' : rcvd'[i] \in {Bad, RightByte(req.offs + i - 1)}
    BY <1>6, <2>0 DEF ChunkInv
  <2>3. sec = "cbw" /\ Replied("OKAY")' => UNCHANGED inn /\ Replied("OKAY")
    BY <1>6, <2>1, StageAnswers DEF Replied
  <2>4. sec = "piece" => (PieceToCome' <=> PieceToCome)
    BY <1>0, <1>6, <2>1, PieceAnswers DEF PieceToCome, Replied
  <2>5. mode' = "image" /\ Pending("data")' => UNCHANGED <<out, mode>> /\ Pending("data")
    BY WaitingMode DEF Pending
  <2>6. sec = "piece" => InStep(IF PieceToCome THEN buf.from ELSE buf.from + PieceLength)'
    BY <1>0, <1>6, <2>0, <2>4 DEF ChunkInv, InStep
  <2>7. mode' = "image" /\ Pending("data")' =>
          /\ out'[1].arg.item = RightByte(0)[1]
          /\ out'[1].arg.len = 0 \/ out'[1].arg.from = req.offs + Len(rcvd)
    BY <2>0, <2>5 DEF ChunkInv
  <2>8. sec = "cbw" /\ Replied("OKAY")' /\ ~inn'[1].payload.done =>
          rcvd' = <<>> /\ inn'[1].payload = req'
    BY <1>6, <2>0, <2>3 DEF ChunkInv
  <2>9. sec = "cbw" /\ ip > 1 /\ ~payload.done => rcvd' = <<>> /\ payload = req'
    BY <1>6, <2>0 DEF ChunkInv
  <2>. QED
    BY <1>0, <1>6, <2>2, <2>6, <2>7, <2>8, <2>9 DEF RightByte
<1>7. ~DevImage /\ ~DevCbw /\ ~DevBoot =>
        /\ UNCHANGED req /\ Len(rcvd') = Len(rcvd) /\ (rcvd = <<>> => rcvd' = <<>>)
        /\ \A i \in DOMAIN rcvd' : i \in DOMAIN rcvd /\ rcvd'[i] \in {Bad, rcvd[i]}
  <2>1. CASE UNCHANGED <<req, rcvd>>
    BY <2>1
  <2>2. CASE DevCorrupt
    <3>1. PICK j \in DOMAIN rcvd : rcvd' = [rcvd EXCEPT ![j] = Bad]
      BY <2>2 DEF DevCorrupt
    <3>2. UNCHANGED req /\ rcvd \in Seq(Items \X Nat)
      BY <2>2 DEF DevCorrupt, ShapeInv
    <3>3. rcvd # <<>>
      BY <3>1
    <3>. QED
      BY <3>1, <3>2, <3>3
  <2>3. CASE ~DevBoot
    <3>1. dstage = "SPL"
      BY <1>3, <2>3
    <3>2. ~DevBlock
      BY <3>1 DEF DevBlock, EarlyInv
    <3>3. ~DevMwrite
      BY <1>0, <3>1, Taken DEF DevMwrite, Take
    <3>. QED
      BY <2>1, <2>2, <3>2, <3>3, ReceiveSteps
  <2>. QED
    BY <2>3
<1>. QED
  BY <1>2, <1>4, <1>5, <1>6, <1>7

\* Every step keeps what the SPL receives U-Boot at its offset.
LEMMA ChunkNext ==
  ASSUME IInv, LeavingInv, EarlyInv, ShapeInv, ChunkInv, Next
  PROVE ChunkInv'
<1>0. /\ SectionInv /\ FlightInv /\ ModeInv /\ ip \in Nat \ {0}
      /\ buf \in [from : Nat, left : 0 .. MaxRequest] /\ setup \in Setups
      /\ req.offs \in Nat
  BY DEF IInv, FlightInv, ShapeInv, Request
<1>1. CASE DevNext /\ UNCHANGED hostVars
  BY <1>1, DevChunk
<1>2. CASE HostNext
  <2>1. UNCHANGED <<setup, dstage, mode, rcvd, req>>
    BY <1>2, HostFrame DEF devVars, storage
  <2>2. \A o : RightByte(o)' = RightByte(o)
    BY <2>1 DEF RightByte
  <2>3. CASE HostSend
    <3>1. /\ UNCHANGED <<inn, sec, ip, payload, secure, buf>> /\ ip <= Len(Script)
          /\ out' = <<[op |-> Row.op, arg |-> Row.arg]>> /\ ~awaiting
      BY <2>3 DEF HostSend, Write
    <3>2. ~Replied("OKAY") \/ sec = "failed"
      BY <1>0, <3>1 DEF FlightInv, Replied
    <3>3. UNCHANGED <<PieceLength, TplSlice(buf.from, PieceLength)>>
      BY <2>1, <3>1 DEF PieceLength, TplSlice, TplItem, Slice, MinOf
    <3>4. sec = "piece" /\ Row.op = "data" =>
            ip = 2 /\ Row.arg = TplSlice(buf.from, PieceLength)
      BY <1>0, <3>1, Rows
    <3>5. ASSUME dstage = "SPL", Row.op = "data"
          PROVE /\ sec = "piece" /\ Row.arg.item = RightByte(0)[1]
                /\ Row.arg.len = 0 \/ Row.arg.from = req.offs + Len(rcvd)
      <4>1. sec = "piece"
        <5>1. sec = "rom" => ip > Len(Script) \/ Replied("OKAY")
          BY <3>5 DEF EarlyInv
        <5>2. sec \in {"rom", "piece"}
          BY <1>0, <3>1, <3>5, Rows
        <5>. QED
          BY <1>0, <3>1, <3>2, <5>1, <5>2
      <4>2. PieceToCome /\ Row.arg = TplSlice(buf.from, PieceLength)
        BY <3>2, <3>4, <3>5, <4>1 DEF PieceToCome
      <4>3. InStep(buf.from)
        BY <3>5, <4>1, <4>2 DEF ChunkInv
      <4>4. TplItem = RightByte(0)[1]
        <5>1. secure = setup.secure
          BY <4>1 DEF EarlyInv
        <5>2. TplItem = <<IF secure THEN "UBOOT_ENC" ELSE "UBOOT", 0>>
          BY DEF TplItem
        <5>3. RightByte(0)[1] = <<IF setup.secure THEN "UBOOT_ENC" ELSE "UBOOT", 0>>
          BY DEF RightByte
        <5>. QED
          BY <5>1, <5>2, <5>3
      <4>5. setup.ubootSize \in Nat
        BY <1>0, SetupsAssumption
      <4>. QED
        BY <1>0, <4>1, <4>2, <4>3, <4>4, <4>5, TplPiece DEF InStep
    <3>6. /\ Pending("data")' <=> Row.op = "data"
          /\ out'[1].arg = Row.arg
      BY <3>1 DEF Pending
    <3>7. PieceToCome' <=> PieceToCome
      BY <3>1 DEF PieceToCome, Replied
    <3>8. sec = "piece" /\ Pending("data")' => out'[1].arg = TplSlice(buf.from, PieceLength)
      BY <3>4, <3>6
    <3>9. dstage = "SPL" /\ Pending("data")' =>
            /\ out'[1].arg.item = RightByte(0)[1]
            /\ out'[1].arg.len = 0 \/ out'[1].arg.from = req.offs + Len(rcvd)
      BY <3>5, <3>6
    <3>. QED
      BY <2>1, <2>2, <3>1, <3>3, <3>7, <3>8, <3>9 DEF ChunkInv, InStep, Replied
  <2>4. CASE HostReceive
    <3>1. /\ UNCHANGED <<out, sec, secure, buf>> /\ payload' = inn[1].payload /\ inn' = <<>>
          /\ inn # <<>> /\ inn[1].header = Row.expect /\ ip <= Len(Script) /\ ip' = ip + 1
          /\ awaiting
      BY <1>0, <2>4 DEF HostReceive, Expected, FlightInv
    <3>2. UNCHANGED <<PieceLength, TplSlice(buf.from, PieceLength)>>
      BY <2>1, <3>1 DEF PieceLength, TplSlice, TplItem, Slice, MinOf
    <3>3. sec = "cbw" => Replied("OKAY")
      BY <1>0, <3>1, Rows DEF Replied
    <3>4. sec = "piece" => (PieceToCome' <=> PieceToCome)
      <4>1. sec = "piece" => \/ ip = 1 /\ ip' = 2
                             \/ ip = 2 /\ ip' = 3 /\ Replied("OKAY")
        BY <1>0, <3>1, PieceRows DEF Replied
      <4>. QED
        BY <3>1, <4>1 DEF PieceToCome, Replied
    <3>5. ~Replied("OKAY")'
      BY <3>1 DEF Replied
    <3>6. Pending("data")' => sec = "failed"
      <4>1. inn[1].header # "FAIL"
        BY <1>0, <3>1, Rows
      <4>. QED
        BY <1>0, <3>1, <4>1 DEF FlightInv, Pending
    <3>7. Pending("data")' <=> Pending("data")
      BY <3>1 DEF Pending
    <3>. QED
      BY <2>1, <2>2, <3>1, <3>2, <3>3, <3>4, <3>5, <3>6, <3>7 DEF ChunkInv, InStep
  <2>5. CASE HostUnexpected \/ HostUsbError
    BY <2>1, <2>2, <2>5 DEF HostUnexpected, HostUsbError, Fail, Goto, ChunkInv, Pending
  <2>6. CASE HostBusy \/ HostDataOut \/ HostBlock
    <3>1. sec \in {"verify", "mwrite", "blocks"} /\ sec' \in {"verify", "blocks", "tplSum"}
      BY <2>6 DEF HostBusy, HostDataOut, HostBlock, Goto
    <3>2. mode # "image"
      BY <1>0, <3>1 DEF ModeInv, InPart
    <3>. QED
      BY <2>1, <2>2, <3>1, <3>2 DEF ChunkInv
  <2>7. CASE Moving
    <3>1. out' = <<>> /\ (inn' # <<>> => inn'[1].header = "FAIL") /\ ip' = 1
      BY <2>7, MovingIsLocal
    <3>2. ~Pending("data")' /\ ~Replied("OKAY")' /\ ~(ip' > 1) /\ PieceToCome'
      BY <3>1 DEF Pending, Replied, PieceToCome
    <3>3. ASSUME dstage = "SPL", sec' = "piece"
          PROVE InStep(buf.from)'
      <4>1. CASE HostCbw
        <5>1. sec = "cbw" /\ ip > 1 /\ ~payload.done /\ buf'.from = payload.offs
          <6>1. sec = "cbw" /\ ip > Len(Script)
            BY <4>1 DEF HostCbw, SectionOver
          <6>2. ip > 1
            BY <1>0, <6>1, Lengths
          <6>. QED
            BY <3>3, <4>1, <6>1, <6>2 DEF HostCbw, Goto, ReadFrom
        <5>2. rcvd = <<>> /\ payload = req
          BY <3>3, <5>1 DEF ChunkInv
        <5>. QED
          BY <1>0, <2>1, <5>1, <5>2 DEF InStep
      <4>2. CASE HostPiece
        <5>1. sec = "piece" /\ buf'.from = buf.from + PieceLength
          BY <4>2 DEF HostPiece, Advance
        <5>2. ~PieceToCome
          <6>1. ip > Len(Script) /\ Script = PieceScript
            BY <4>2, <5>1, Scripts DEF HostPiece, SectionOver
          <6>2. Len(Script) = 2
            BY <6>1 DEF PieceScript
          <6>. QED
            BY <1>0, <6>1, <6>2 DEF PieceToCome
        <5>3. InStep(buf.from + PieceLength)
          BY <3>3, <5>1, <5>2 DEF ChunkInv
        <5>. QED
          BY <2>1, <5>1, <5>3 DEF InStep
      <4>3. ~HostCbw /\ ~HostPiece => sec' # "piece"
        <5>1. CASE HostFind \/ HostProbed \/ HostWaited \/ HostSecured \/ HostBl2
          BY <5>1 DEF HostFind, HostProbed, HostWaited, HostSecured, HostBl2, Goto
        <5>2. CASE HostNextSection
          BY <5>2, Moves, Nexts DEF Goto, HostNextSection, NextPartition
        <5>3. CASE HostWritten \/ HostVerified
          BY <5>3 DEF HostWritten, HostVerified, Goto, NextPartition
        <5>. QED
          BY <2>7, <5>1, <5>2, <5>3 DEF Moving
      <4>. QED
        BY <3>3, <4>1, <4>2, <4>3
    <3>. QED
      BY <2>1, <2>2, <3>2, <3>3 DEF ChunkInv
  <2>. QED
    BY <1>2, <2>3, <2>4, <2>5, <2>6, <2>7 DEF HostNext, Moving
<1>. QED
  BY <1>1, <1>2 DEF Next

\* What is committed to memory is U-Boot, each byte at its offset.
LEMMA CommitsRight ==
  ASSUME ShapeInv, ChunkInv, LoadedInv, DevSum, ~UNCHANGED loaded
  PROVE /\ DOMAIN loaded' = DOMAIN loaded
        /\ \A o \in DOMAIN loaded : loaded'[o] \in {loaded[o], RightByte(o)}
<1>1. /\ dstage = "SPL" /\ Pending("sum") /\ out[1].arg.bytes = Sum(rcvd)
      /\ DOMAIN loaded' = DOMAIN loaded
      /\ \A o \in DOMAIN loaded :
           \/ loaded'[o] = loaded[o]
           \/ \E i \in DOMAIN rcvd : i = o - req.offs + 1 /\ loaded'[o] = rcvd[i]
  BY Committed
<1>2. Bad \notin Sum(rcvd)
  BY <1>1 DEF LoadedInv
<1>3. Sum(rcvd) = {rcvd[i] : i \in DOMAIN rcvd}
  BY DEF Sum, ToSet
<1>4. \A i \in DOMAIN rcvd : rcvd[i] = RightByte(req.offs + i - 1)
  BY <1>1, <1>2, <1>3 DEF ChunkInv
<1>5. req.offs \in Nat /\ DOMAIN rcvd \subseteq Int /\ DOMAIN loaded \subseteq Int
  BY DEF ShapeInv, Request
<1>6. \A o \in DOMAIN loaded, i \in DOMAIN rcvd :
        i = o - req.offs + 1 => req.offs + i - 1 = o
  BY <1>5
<1>. QED
  BY <1>1, <1>4, <1>6

\* Every step keeps what is loaded U-Boot, and complete where it is started.
LEMMA LoadedNext ==
  ASSUME IInv, ShapeInv, ChunkInv, LoadedInv, Next
  PROVE LoadedInv'
<1>0. /\ SectionInv /\ FlightInv
      /\ buf \in [from : Nat, left : 0 .. MaxRequest] /\ setup \in Setups
  BY DEF IInv, ShapeInv
<1>1. CASE HostNext
  <2>1. UNCHANGED <<setup, bootTo, loaded>>
    BY <1>1, HostFrame DEF devVars, storage
  <2>2. Bad \notin sum'
    <3>1. CASE HostCbw
      BY <3>1 DEF HostCbw
    <3>2. CASE HostPiece
      <4>1. TplSlice(buf.from, PieceLength) \in [item : Items, from : Nat, len : Nat]
            /\ TplSlice(buf.from, PieceLength).item = TplItem
        BY <1>0, TplPiece
      <4>2. TplItem # Bad[1]
        BY DEF TplItem, Bad
      <4>3. Bad \notin Sum(BytesOf(TplSlice(buf.from, PieceLength)))
        BY <4>1, <4>2, NoCorruption
      <4>. QED
        BY <3>2, <4>3 DEF HostPiece, LoadedInv
    <3>3. CASE HostDataOut
      <4>. DEFINE d == Slice(PartItem(part), inn[1].payload.offs, inn[1].payload.size)
      <4>1. inn[1].payload \in Request /\ part \in Nat
        BY <1>0, <3>3 DEF HostDataOut, ShapeInv, Replied, SectionInv
      <4>2. d \in [item : Items, from : Nat, len : Nat] /\ d.item # Bad[1]
        BY <4>1 DEF Slice, PartItem, Items, Bad, Request
      <4>3. Bad \notin Sum(BytesOf(d))
        BY <4>2, NoCorruption
      <4>4. sum' = Sum(BytesOf(d))
        BY <3>3 DEF HostDataOut, ReadFrom
      <4>. QED
        BY <4>3, <4>4
    <3>4. CASE ~HostCbw /\ ~HostPiece /\ ~HostDataOut
      BY <1>1, <3>4 DEF HostNext, HostSend, HostReceive, HostUnexpected, HostFind, HostProbed,
         HostNextSection, HostWaited, HostSecured, HostBl2, HostBlock, HostWritten, HostBusy,
         HostVerified, HostUsbError, LoadedInv
    <3>. QED
      BY <3>1, <3>2, <3>3, <3>4
  <2>3. Pending("sum")' => Bad \notin out'[1].arg.bytes
    <3>1. CASE HostSend
      <4>1. /\ out'[1].op = Row.op /\ out'[1].arg = Row.arg
            /\ ip \in Nat \ {0} /\ ip <= Len(Script)
        BY <1>0, <3>1 DEF HostSend, Write, FlightInv
      <4>2. Row.op = "sum" => Row.arg.bytes = sum
        BY <1>0, <4>1, Rows
      <4>. QED
        BY <4>1, <4>2 DEF Pending, LoadedInv
    <3>2. CASE HostBlock
      BY <3>2 DEF HostBlock, Write, Pending, LoadedInv
    <3>3. CASE Moving
      BY <3>3, MovingIsLocal DEF Pending
    <3>4. CASE HostReceive \/ HostUnexpected \/ HostUsbError \/ HostDataOut \/ HostBusy
      BY <3>4 DEF HostReceive, HostUnexpected, HostUsbError, HostDataOut, HostBusy, Pending,
                  LoadedInv
    <3>. QED
      BY <1>1, <3>1, <3>2, <3>3, <3>4 DEF HostNext, Moving
  <2>. QED
    BY <2>1, <2>2, <2>3 DEF LoadedInv, TplInPlace, RightByte
<1>2. CASE DevNext /\ UNCHANGED hostVars
  <2>1. UNCHANGED <<setup, sum>> /\ (Pending("sum")' => Bad \notin out'[1].arg.bytes)
    BY <1>2, DevFrame, DevOut DEF hostVars, Pending, LoadedInv
  <2>2. /\ DOMAIN loaded' = DOMAIN loaded
        /\ \A o \in DOMAIN loaded : loaded'[o] \in {loaded[o], RightByte(o)}
    BY <1>2, LoadSteps, CommitsRight
  <2>3. \A o \in DOMAIN loaded' : loaded'[o] \in {Bad, RightByte(o)}
    BY <2>2 DEF LoadedInv
  <2>4. bootTo' = "TPL" => \A o \in 0 .. UbootSize - 1 : loaded'[o] = RightByte(o)
    <3>0. DOMAIN loaded = 0 .. UbootSize - 1
      BY DEF ShapeInv
    <3>1. CASE bootTo = "TPL"
      BY <2>2, <3>0, <3>1 DEF LoadedInv, TplInPlace, RightByte
    <3>2. CASE bootTo' = "TPL" /\ bootTo # "TPL"
      <4>1. DevCbw
        BY <1>2, <3>2, DevStays DEF DevBoot, DevReboot, DevLeave, DevAppear, DevCrash
      <4>2. Unloaded = {} /\ UNCHANGED loaded
        BY <3>2, <4>1 DEF DevCbw
      <4>. QED
        BY <3>0, <4>2 DEF Unloaded, LoadedInv
    <3>. QED
      BY <3>1, <3>2
  <2>. QED
    BY <2>1, <2>3, <2>4 DEF LoadedInv, TplInPlace, RightByte
<1>. QED
  BY <1>1, <1>2 DEF Next

\* The burn begins with nothing received and nothing loaded.
LEMMA PlaceInit ==
  ASSUME Init
  PROVE LeavingInv /\ PlaceInv
<1>. USE DEF Init, DevInit, HostInit, Pending, Replied
<1>1. LeavingInv /\ EarlyInv
  BY DEF LeavingInv, EarlyInv, RomStarts
<1>2. ShapeInv
  <2>1. NoRequest \in Request
    <3>1. 0 \in Nat /\ 0 \in 0 .. MaxRequest /\ FALSE \in BOOLEAN
      OBVIOUS
    <3>. QED
      BY Zenon, <3>1 DEF NoRequest, Request
  <2>2. Bad \in Items \X Nat
    BY DEF Bad, Items
  <2>. QED
    BY <2>1, <2>2 DEF ShapeInv
<1>3. ChunkInv
  <2>1. DOMAIN rcvd = {}
    OBVIOUS
  <2>. QED
    BY <2>1 DEF ChunkInv
<1>4. LoadedInv
  BY DEF LoadedInv, TplInPlace
<1>. QED
  BY <1>1, <1>2, <1>3, <1>4 DEF PlaceInv

\* Where the commands are, what was received and what is loaded stay in step.
THEOREM PlaceInvariance == Spec => [](LeavingInv /\ PlaceInv)
<1>1. IInv /\ (LeavingInv /\ PlaceInv) /\ [Next]_vars => (LeavingInv /\ PlaceInv)'
  <2>1. ASSUME IInv, LeavingInv, PlaceInv, Next PROVE LeavingInv' /\ PlaceInv'
    BY <2>1, LeavingNext, ShapeNext, EarlyNext, ChunkNext, LoadedNext DEF PlaceInv
  <2>2. ASSUME IInv, LeavingInv, PlaceInv, UNCHANGED vars PROVE LeavingInv' /\ PlaceInv'
    <3>1. /\ UNCHANGED <<setup, dstage, bootTo, mode, req, rcvd, loaded, out, inn, sec>>
          /\ UNCHANGED <<ip, payload, secure, buf, sum, part>>
      BY <2>2 DEF vars, devVars, storage, hostVars
    <3>2. Script' = Script
      BY <3>1, SameScript
    <3>3. LeavingInv' /\ ShapeInv'
      BY <2>2, <3>1 DEF LeavingInv, PlaceInv, ShapeInv, Pending, Replied
    <3>4. EarlyInv'
      BY <2>2, <3>1, <3>2 DEF PlaceInv, EarlyInv, Pending, Replied
    <3>5. ChunkInv'
      BY <2>2, <3>1 DEF PlaceInv, ChunkInv, Pending, Replied, InStep, PieceToCome, RightByte,
         PieceLength, TplSlice, TplItem, Slice, MinOf
    <3>6. LoadedInv'
      BY <2>2, <3>1 DEF PlaceInv, LoadedInv, TplInPlace, Pending, RightByte
    <3>. QED
      BY <3>3, <3>4, <3>5, <3>6 DEF PlaceInv
  <2>. QED
    BY <2>1, <2>2
<1>2. Init => LeavingInv /\ PlaceInv
  BY PlaceInit
<1>. QED
  BY <1>1, <1>2, Invariance, PTL DEF Spec

\* A TPL is started only with every byte of U-Boot at its own offset, although
\* the checksum of a chunk does not see where its bytes belong.
THEOREM TplAlwaysInPlace == Spec => []TplInPlace
<1>1. PlaceInv => TplInPlace
  BY DEF PlaceInv, LoadedInv
<1>. QED
  BY PlaceInvariance, <1>1, PTL

----------------------------------------------------------------------------
(* Types. *)

\* Every section's script is a sequence.
LEMMA ScriptLength == SectionInv => Len(Script) \in Nat
<1>. SUFFICES ASSUME SectionInv PROVE Len(Script) \in Nat
  OBVIOUS
<1>1. CASE sec \in {"rom", "secure", "bl2"}
  BY <1>1, Scripts, RomRows, SecureRows, Bl2Rows
<1>. DEFINE Short == (\E x : Script = <<x>>) \/ (\E x, y : Script = <<x, y>>)
<1>0. Short => Len(Script) \in Nat
  OBVIOUS
<1>2. CASE sec \in {"probe", "toRom", "reboot"}
  <2>1. Short
    BY <1>2, Scripts
  <2>. QED
    BY <1>0, <2>1
<1>3. CASE sec \in {"piece", "splSum"}
  <2>1. Short
    BY <1>3, Scripts DEF PieceScript
  <2>. QED
    BY <1>0, <2>1
<1>4. CASE sec \notin {"rom", "secure", "bl2", "probe", "toRom", "reboot", "piece", "splSum"}
  BY <1>4, Lengths DEF SectionInv, BeforeParts, InPart, AfterParts, Ended
<1>. QED
  BY <1>1, <1>2, <1>3, <1>4

\* The device answers with one packet at most.
LEMMA OneAnswer ==
  ASSUME DevNext, Len(inn) <= 1
  PROVE Len(inn') <= 1
<1>0. ASSUME NEW h, NEW p, Reply(h, p) PROVE Len(inn') <= 1
  BY <1>0 DEF Reply
<1>1. ASSUME NEW h, Plain(h) PROVE Len(inn') <= 1
  BY <1>0, <1>1 DEF Plain
<1>2. CASE DevIdentify \/ DevCbw
  BY <1>0, <1>2 DEF DevIdentify, DevCbw
<1>3. CASE Plain("OKAY") \/ Plain("DATA") \/ Plain("INFO") \/ Plain("FAIL")
  BY <1>1, <1>3
<1>4. DevGetvar \/ DevSetvar \/ DevBurnsteps \/ DevDownload \/ DevImage \/ DevBoot
        => Plain("OKAY") \/ Plain("DATA")
  BY DEF DevGetvar, DevSetvar, DevBurnsteps, DevDownload, DevImage, DevBoot
<1>5. DevDiskInitial \/ DevOemMwrite \/ DevReboot \/ DevInfo => Plain("OKAY") \/ Plain("INFO")
  BY DEF DevDiskInitial, DevOemMwrite, DevReboot, DevInfo
<1>6. DevSum \/ DevVerified \/ DevRefuse \/ DevReject => Plain("OKAY") \/ Plain("FAIL")
  BY DEF DevSum, DevVerified, DevRefuse, DevReject, Rejected
<1>7. CASE DevMwrite
  BY <1>0, <1>1, <1>7 DEF DevMwrite
<1>8. DevBlock \/ DevVerify \/ DevLeave \/ DevAppear \/ DevCrash \/ DevCorrupt \/ DevMisstore
        => UNCHANGED inn \/ inn' = <<>>
  BY DEF DevBlock, DevVerify, DevLeave, DevAppear, DevCrash, DevCorrupt, DevMisstore
<1>9. CASE UNCHANGED inn \/ inn' = <<>>
  BY <1>9
<1>. QED
  BY <1>2, <1>3, <1>4, <1>5, <1>6, <1>7, <1>8, <1>9 DEF DevNext, DevStep

\* Blocks are sent outside any script.
LEMMA BlocksLength == sec = "blocks" => Len(Script) = 0
BY Lengths

\* Every step keeps the simple types.
LEMMA FormNext ==
  ASSUME IInv, ShapeInv, FormInv, Next
  PROVE FormInv'
<1>0. SectionInv /\ FlightInv /\ ip \in Nat \ {0} /\ setup \in Setups
  BY DEF IInv, FlightInv, ShapeInv
<1>1. (Len(Script) \in Nat)'
  <2>1. SectionInv'
    BY SectionNext
  <2>. QED
    BY <2>1, ScriptLength, PTL
<1>2. CASE DevNext /\ UNCHANGED hostVars
  <2>1. UNCHANGED <<ip, handle, lastAddr, awaiting, secure>> /\ Script' = Script
    BY <1>2, DevFrame, SameScript DEF hostVars
  <2>2. addr' \in Addresses
    BY <1>2, DevStays DEF DevBoot, DevCbw, DevReboot, DevLeave, DevAppear, DevCrash, Take,
       FormInv
  <2>3. Len(out') <= 1 /\ Len(inn') <= 1
    BY <1>2, DevOut, OneAnswer DEF FormInv
  <2>. QED
    BY <2>1, <2>2, <2>3 DEF FormInv
<1>3. CASE HostNext
  <2>1. UNCHANGED addr
    BY <1>3, HostFrame DEF devVars
  <2>2. CASE HostSend
    <3>1. /\ UNCHANGED <<inn, ip, handle, lastAddr, secure>> /\ Script' = Script
          /\ awaiting' = TRUE
      BY <2>2, SameScript DEF HostSend
    <3>2. Len(out') <= 1
      BY <2>2 DEF HostSend, Write
    <3>3. awaiting' \in BOOLEAN
      BY Zenon, <3>1
    <3>. QED
      BY <2>1, <3>1, <3>2, <3>3 DEF FormInv
  <2>3. CASE HostReceive
    <3>1. /\ UNCHANGED <<out, handle, lastAddr, secure>> /\ Script' = Script
          /\ awaiting' = FALSE /\ ip' = ip + 1 /\ ip <= Len(Script) /\ inn' = <<>>
      BY <1>0, <2>3, SameScript DEF HostReceive, FlightInv
    <3>2. ip' <= Len(Script') + 1
      BY <1>0, <1>1, <3>1
    <3>3. awaiting' \in BOOLEAN
      BY Zenon, <3>1
    <3>. QED
      BY <2>1, <3>1, <3>2, <3>3 DEF FormInv
  <2>4. CASE HostUnexpected \/ HostUsbError
    <3>1. /\ UNCHANGED <<out, handle, lastAddr, secure>> /\ awaiting' = FALSE /\ ip' = 1
          /\ (UNCHANGED inn \/ inn' = <<>>)
      BY <2>4 DEF HostUnexpected, HostUsbError, Fail, Goto
    <3>2. ip' <= Len(Script') + 1
      BY <1>1, <3>1
    <3>3. awaiting' \in BOOLEAN
      BY Zenon, <3>1
    <3>. QED
      BY <2>1, <3>1, <3>2, <3>3 DEF FormInv
  <2>5. CASE HostBusy
    <3>1. UNCHANGED <<out, ip, handle, lastAddr, secure, awaiting>> /\ Script' = Script
          /\ inn' = <<>>
      BY <2>5, SameScript DEF HostBusy
    <3>. QED
      BY <2>1, <3>1 DEF FormInv
  <2>6. CASE HostDataOut
    <3>1. UNCHANGED <<out, handle, lastAddr, secure>> /\ ip' = 1 /\ inn' = <<>>
          /\ awaiting' = FALSE
      BY <2>6 DEF HostDataOut, Goto
    <3>2. ip' <= Len(Script') + 1
      BY <1>1, <3>1
    <3>3. awaiting' \in BOOLEAN
      BY Zenon, <3>1
    <3>. QED
      BY <2>1, <3>1, <3>2, <3>3 DEF FormInv
  <2>7. CASE HostBlock
    <3>1. UNCHANGED <<inn, handle, lastAddr, secure, awaiting>>
      BY <2>7 DEF HostBlock
    <3>2. Len(out') <= 1
      <4>1. CASE UNCHANGED out
        BY <4>1 DEF FormInv
      <4>2. ASSUME NEW p, Write(p) PROVE Len(out') <= 1
        BY <4>2 DEF Write
      <4>. QED
        BY <2>7, <4>1, <4>2 DEF HostBlock
    <3>3. ip' <= Len(Script') + 1
      <4>1. CASE ip' = 1
        BY <1>1, <4>1
      <4>2. CASE UNCHANGED <<sec, ip>>
        <5>1. Len(Script) = 0 /\ sec' = "blocks"
          BY <2>7, <4>2, Lengths DEF HostBlock
        <5>2. sec' = "blocks" => Len(Script') = 0
          <6>1. (sec = "blocks" => Len(Script) = 0)'
            BY BlocksLength, PTL
          <6>. QED
            BY <6>1
        <5>. QED
          BY <4>2, <5>1, <5>2 DEF FormInv
      <4>. QED
        BY <2>7, <4>1, <4>2 DEF HostBlock, Goto
    <3>. QED
      BY <2>1, <3>1, <3>2, <3>3 DEF FormInv
  <2>8. CASE Moving
    <3>1. UNCHANGED <<out, inn, awaiting>> /\ ip' = 1
      BY <2>8, MovingIsLocal
    <3>2. ip' <= Len(Script') + 1
      BY <1>1, <3>1
    <3>3. handle' \in Addresses \cup {0} /\ lastAddr' \in Addresses \cup {0}
      BY <2>8 DEF Moving, HostFind, HostProbed, HostNextSection, HostWaited, HostSecured,
         HostBl2, HostCbw, HostPiece, HostWritten, HostVerified, FormInv
    <3>4. secure' \in BOOLEAN
      <4>1. secure' \in {secure, setup.secure}
        BY <2>8 DEF Moving, HostFind, HostProbed, HostNextSection, HostWaited, HostSecured,
           HostBl2, HostCbw, HostPiece, HostWritten, HostVerified
      <4>2. setup.secure \in BOOLEAN
        BY Zenon, <1>0, SetupsAssumption
      <4>3. secure \in BOOLEAN
        BY Zenon DEF FormInv
      <4>. QED
        BY Zenon, <4>1, <4>2, <4>3
    <3>. QED
      BY <2>1, <3>1, <3>2, <3>3, <3>4 DEF FormInv
  <2>. QED
    BY <1>3, <2>2, <2>3, <2>4, <2>5, <2>6, <2>7, <2>8 DEF HostNext, Moving
<1>. QED
  BY <1>2, <1>3 DEF Next

\* What was received keeps its length, but for the steps that say so.
LEMMA SameLength ==
  ASSUME IInv, EarlyInv, ShapeInv, DevNext
  PROVE \/ UNCHANGED req /\ Len(rcvd') = Len(rcvd) /\ (rcvd = <<>> => rcvd' = <<>>)
        \/ DevImage /\ dstage = "SPL" /\ mode = "image"
        \/ DevBlock \/ DevCbw
        \/ DevMwrite /\ mode' = "blocks"
<1>1. CASE UNCHANGED <<req, rcvd>>
  BY <1>1
<1>2. CASE DevCorrupt
  <2>1. PICK j \in DOMAIN rcvd : rcvd' = [rcvd EXCEPT ![j] = Bad]
    BY <1>2 DEF DevCorrupt
  <2>2. UNCHANGED req /\ rcvd \in Seq(Items \X Nat) /\ rcvd # <<>>
    BY <1>2, <2>1 DEF DevCorrupt, ShapeInv
  <2>. QED
    BY <2>1, <2>2
<1>3. CASE DevImage
  <2>1. mode = "image" /\ UNCHANGED req /\ (dstage # "ROM" \/ UNCHANGED rcvd)
    BY <1>3 DEF DevImage
  <2>. QED
    BY <1>1, <1>3, <2>1 DEF EarlyInv
<1>4. CASE DevMwrite
  BY <1>1, <1>4 DEF DevMwrite
<1>. QED
  BY <1>1, <1>2, <1>3, <1>4, ReceiveSteps

\* Only the checksum of a chunk and the end of a partition change what is
\* marked as written.
LEMMA WrittenSteps ==
  ASSUME IInv, DevNext
  PROVE \/ written' \subseteq written
        \/ dstage = "TPL" /\ mode = "checksum" /\ written' = written \cup ChunkPlace
<1>1. CASE DevSum
  <2>1. mode = "checksum" /\ dstage # "OFF"
    BY <1>1, Taken DEF DevSum, Take, IInv
  <2>2. UNCHANGED written \/ (dstage \notin {"ROM", "SPL"} /\ written' = written \cup ChunkPlace)
    BY <1>1 DEF DevSum, Commit
  <2>. QED
    BY <2>1, <2>2 DEF IInv, ModeInv
<1>2. CASE DevOemMwrite \/ DevVerified
  BY <1>2 DEF DevOemMwrite, DevVerified
<1>3. CASE ~DevSum /\ ~DevOemMwrite /\ ~DevVerified
  <2>1. UNCHANGED written
    BY <1>3, RejectedReply
       DEF DevNext, DevStep, DevIdentify, DevGetvar, DevSetvar, DevBurnsteps, DevDownload,
       DevImage, DevBoot, DevCbw, DevDiskInitial, DevMwrite, DevBlock, DevVerify, DevInfo,
       DevReboot, DevLeave, DevAppear, DevRefuse, DevReject, DevCrash, DevCorrupt,
       DevMisstore, devVars, storage
  <2>. QED
    BY <2>1
<1>. QED
  BY <1>1, <1>2, <1>3

\* How the modes that take bytes begin.
LEMMA ModeBegins ==
  ASSUME IInv, EarlyInv, DevNext
  PROVE /\ mode' = "image" => mode = "image" \/ out' = <<>>
        /\ mode' = "blocks" =>
             \/ mode = "blocks" /\ (UNCHANGED out \/ DevBlock)
             \/ DevMwrite
        /\ dstage' = "TPL" /\ mode' = "checksum" =>
             \/ UNCHANGED <<mode, dstage>>
             \/ DevBlock
        /\ dstage' = "SPL" => dstage = "SPL" \/ DevBoot
<1>0. PacketInv /\ ModeInv
  BY DEF IInv
<1>1. dstage' = "SPL" => dstage = "SPL" \/ DevBoot
  BY DevStays DEF DevCbw, DevReboot, DevLeave, DevAppear, DevCrash
<1>. SUFFICES ASSUME mode' # "cmd"
              PROVE /\ mode' = "image" => mode = "image" \/ out' = <<>>
                    /\ mode' = "blocks" =>
                         \/ mode = "blocks" /\ (UNCHANGED out \/ DevBlock)
                         \/ DevMwrite
                    /\ dstage' = "TPL" /\ mode' = "checksum" =>
                         \/ UNCHANGED <<mode, dstage>>
                         \/ DevBlock
  BY <1>1
<1>2. CASE UNCHANGED <<mode, dstage, out>>
  BY <1>2
<1>3. CASE DevSetvar
  BY <1>0, <1>3, Taken DEF DevSetvar, Take, Arg, PacketInv, Pending
<1>4. CASE DevDownload \/ DevVerify
  BY <1>4 DEF DevDownload, DevVerify, Take
<1>5. CASE DevBoot \/ DevIdentify \/ DevGetvar \/ DevCbw
  <2>1. UNCHANGED mode /\ (mode = "cmd" \/ UNCHANGED dstage) /\ out' = <<>> /\ mode # "blocks"
    BY <1>0, <1>5, Taken DEF DevBoot, DevIdentify, DevGetvar, DevCbw, Take
  <2>. QED
    BY <2>1
<1>6. CASE DevDiskInitial \/ DevOemMwrite \/ DevReboot
  <2>1. UNCHANGED mode /\ mode = "cmd"
    BY <1>0, <1>6, Taken DEF DevDiskInitial, DevOemMwrite, DevReboot, Take
  <2>. QED
    BY <2>1
<1>7. CASE DevMwrite
  <2>1. mode' \in {"cmd", "blocks"}
    BY <1>0, <1>7, Taken DEF DevMwrite, Take
  <2>. QED
    BY <1>7, <2>1
<1>8. CASE DevBlock
  BY <1>8 DEF DevBlock
<1>9. CASE DevAppear
  BY <1>0, <1>9 DEF DevAppear, ModeInv
<1>10. CASE DevInfo \/ DevCorrupt \/ DevMisstore
  BY <1>2, <1>10 DEF DevInfo, DevCorrupt, DevMisstore, devVars
<1>11. CASE DevBurnsteps \/ DevImage \/ DevSum \/ DevVerified \/ DevLeave \/ DevCrash
            \/ DevRefuse \/ DevReject
  BY <1>11, RejectedReply DEF DevBurnsteps, DevImage, DevSum, DevVerified, DevLeave, DevCrash,
     DevRefuse, DevReject
<1>. QED
  BY <1>3, <1>4, <1>5, <1>6, <1>7, <1>8, <1>9, <1>10, <1>11 DEF DevNext, DevStep

\* The data of a burn has its sizes.
LEMMA CountTypes ==
  ASSUME ShapeInv
  PROVE /\ Len(rcvd) \in Nat /\ req.size \in Nat /\ req.offs \in Nat
        /\ buf.left \in Nat /\ PieceLength \in Nat /\ PieceLength <= buf.left
        /\ Pending("data") => out[1].arg.len \in Nat
BY Piece DEF ShapeInv, Request

\* A piece the SPL receives was counted among those to come.
LEMMA ImageCount ==
  ASSUME IInv, ShapeInv, ChunkInv, CountInv, DevImage, UNCHANGED hostVars,
         dstage = "SPL", mode = "image"
  PROVE CountInv'
<1>0. /\ UNCHANGED <<sec, ip, buf>> /\ UNCHANGED <<dstage, req, written>>
      /\ UNCHANGED PieceLength
      /\ SectionInv /\ FlightInv /\ ip \in Nat \ {0}
  BY DEF IInv, FlightInv, hostVars, DevImage, PieceLength, MinOf
<1>1. /\ out # <<>> /\ Pending("data") /\ out' = <<>> /\ mode' = "cmd"
      /\ Len(rcvd') = Len(rcvd) + out[1].arg.len /\ Replied("OKAY")'
  BY Continues DEF DevImage, Take, Plain, Reply, Pending, Replied
<1>2. Len(rcvd') <= req.size
  BY <1>1 DEF CountInv
<1>3. ASSUME sec = "piece"
      PROVE Len(rcvd') + LeftToSend' <= req.size
  <2>1. awaiting /\ out[1].op = Row.op /\ ip <= Len(Script)
    BY <1>0, <1>1, <1>3 DEF FlightInv, Pending
  <2>2. ip = 2
    BY <1>0, <1>1, <1>3, <2>1, PieceRows DEF Pending
  <2>3. PieceToCome /\ ~PieceToCome'
    BY <1>0, <1>1, <2>2 DEF PieceToCome, Replied, DevImage, Take
  <2>4. Len(rcvd) + buf.left <= req.size /\ LeftToSend' = buf.left - PieceLength
    BY <1>0, <1>3, <2>3 DEF CountInv, LeftToSend
  <2>5. out[1].arg.len <= PieceLength
    BY <1>1, <1>3, TplPiece DEF ChunkInv, ShapeInv
  <2>6. /\ Len(rcvd) \in Nat /\ req.size \in Nat /\ buf.left \in Nat /\ PieceLength \in Nat
        /\ out[1].arg.len \in Nat
    BY <1>1, CountTypes
  <2>7. Len(rcvd') = Len(rcvd) + out[1].arg.len
    BY <1>1
  <2>8. \A r, d, l, p, s \in Nat : r + l <= s /\ d <= p => (r + d) + (l - p) <= s
    OBVIOUS
  <2>9. (Len(rcvd) + out[1].arg.len) + (buf.left - PieceLength) <= req.size
    BY <2>4, <2>5, <2>6, <2>8
  <2>. QED
    BY <2>4, <2>7, <2>9
<1>. QED
  BY <1>0, <1>1, <1>2, <1>3 DEF CountInv, Pending

\* A block the TPL receives was counted among those in hand.
LEMMA BlockCount ==
  ASSUME IInv, EarlyInv, ShapeInv, CountInv, DevBlock, UNCHANGED hostVars
  PROVE CountInv'
<1>0. /\ UNCHANGED <<sec, buf>> /\ UNCHANGED <<dstage, req, written, inn>>
      /\ mode = "blocks" /\ dstage = "TPL" /\ inn = <<>>
  BY DEF hostVars, DevBlock, EarlyInv, Take
<1>1. /\ out # <<>> /\ Pending("data") /\ out' = <<>>
      /\ rcvd' = rcvd \o BytesOf(out[1].arg)
  BY DEF DevBlock, Take, Pending, Arg
<1>2. Len(rcvd') = Len(rcvd) + out[1].arg.len
  <2>1. /\ BytesOf(out[1].arg) \in Seq(Items \X Nat)
        /\ Len(BytesOf(out[1].arg)) = out[1].arg.len
    BY <1>1, Bytes DEF ShapeInv
  <2>2. rcvd \in Seq(Items \X Nat)
    BY DEF ShapeInv
  <2>3. \A b \in Seq(Items \X Nat) : Len(rcvd \o b) = Len(rcvd) + Len(b)
    BY <2>2, Joined
  <2>4. Len(rcvd \o BytesOf(out[1].arg)) = Len(rcvd) + Len(BytesOf(out[1].arg))
    BY <2>1, <2>3
  <2>5. Len(rcvd') = Len(rcvd \o BytesOf(out[1].arg))
    BY <1>1
  <2>. QED
    BY <2>1, <2>4, <2>5
<1>3. Len(rcvd') <= req.size
  BY <1>0, <1>1, <1>2 DEF CountInv
<1>4. sec = "blocks" => Len(rcvd') + buf.left <= req.size
  <2>1. sec = "blocks" => Len(rcvd) + buf.left + out[1].arg.len <= req.size
    <3>1. sec = "blocks" =>
            Len(rcvd) + buf.left + (IF out = <<>> THEN 0 ELSE out[1].arg.len) <= req.size
      BY <1>0, Zenon DEF CountInv
    <3>. QED
      BY <1>1, <3>1
  <2>2. Len(rcvd) \in Nat /\ buf.left \in Nat /\ out[1].arg.len \in Nat
    BY <1>1, CountTypes
  <2>. QED
    BY <1>2, <2>1, <2>2
<1>5. ChunkPlace' = ChunkPlace /\ ChunkPlace \subseteq 0 .. PartSize - 1
  BY <1>0 DEF CountInv, ChunkPlace
<1>6. ~Replied("DATAOUT")' /\ ~Pending("data")' /\ ~Pending("mwrite")'
  BY <1>0, <1>1 DEF Replied, Pending
<1>7. Len(rcvd') \in Nat
  BY <1>1, <1>2, CountTypes
<1>. QED
  BY <1>0, <1>1, <1>3, <1>4, <1>5, <1>6, <1>7, CountTypes DEF CountInv

\* The device asks for a chunk of what it lacks.
LEMMA RequestCount ==
  ASSUME IInv, LeavingInv, ShapeInv, CountInv, UNCHANGED hostVars, DevNext,
         DevCbw \/ (DevMwrite /\ mode' = "blocks")
  PROVE CountInv'
<1>0. /\ UNCHANGED sec /\ UNCHANGED <<dstage, written>> /\ rcvd' = <<>> /\ out' = <<>>
      /\ req' \in Request /\ ModeInv
  BY ReceivedShape, Taken DEF hostVars, DevCbw, DevMwrite, Take, IInv
<1>1. Len(rcvd') = 0 /\ req'.size \in Nat /\ ~Pending("data")' /\ ~Pending("mwrite")'
  BY <1>0 DEF Request, Pending
<1>2. CASE DevCbw
  <2>1. sec \in {"cbw", "failed"} /\ mode' = "cmd"
    BY <1>0, <1>2, CbwFacts, Taken DEF LeavingInv, DevCbw, Take
  <2>. QED
    BY <1>0, <1>1, <2>1 DEF CountInv
<1>3. CASE DevMwrite /\ mode' = "blocks"
  <2>1. Pending("mwrite") /\ dstage = "TPL" /\ mode = "cmd"
    BY <1>0, <1>3, Taken DEF DevMwrite, Take, Pending
  <2>2. sec \in {"mwrite", "failed"}
    BY <2>1 DEF CountInv
  <2>3. PICK c \in Chunks((0 .. PartSize - 1) \ written) : req' = c /\ Reply("DATAOUT", c)
    BY <1>3, <2>1 DEF DevMwrite
  <2>4. ChunkPlace' \subseteq 0 .. PartSize - 1
    BY <2>3, ChunkIn DEF ChunkPlace
  <2>5. inn'[1].payload = req'
    BY <2>3 DEF Reply
  <2>. QED
    BY <1>0, <1>1, <2>1, <2>2, <2>4, <2>5 DEF CountInv
<1>. QED
  BY <1>2, <1>3

\* The other steps of the device receive nothing and ask for nothing.
LEMMA QuietCount ==
  ASSUME IInv, LeavingInv, EarlyInv, ShapeInv, CountInv, DevNext, UNCHANGED hostVars,
         UNCHANGED req, Len(rcvd') = Len(rcvd),
         ~(DevImage /\ dstage = "SPL"), ~DevBlock, ~(DevMwrite /\ mode' = "blocks")
  PROVE CountInv'
<1>0. /\ UNCHANGED <<sec, ip, buf>> /\ UNCHANGED PieceLength
      /\ SectionInv /\ FlightInv /\ ModeInv /\ ip \in Nat \ {0}
  BY DEF IInv, FlightInv, hostVars, PieceLength, MinOf
<1>1. out' # <<>> => UNCHANGED <<out, mode>> \/ mode' = "cmd"
  BY WaitingMode
<1>2. Len(rcvd') <= req'.size
  BY DEF CountInv
<1>3. dstage' = "SPL" => dstage = "SPL" \/ (sec \in {"rom", "failed"} /\ out' = <<>>)
  <2>1. DevBoot => Pending("boot") /\ out' = <<>>
    BY DEF DevBoot, Take, Pending
  <2>. QED
    BY <2>1, ModeBegins DEF LeavingInv
<1>4. mode' = "blocks" => mode = "blocks" /\ UNCHANGED out /\ dstage = "TPL"
  <2>1. mode' = "blocks" => mode = "blocks" /\ UNCHANGED out
    BY ModeBegins
  <2>. QED
    BY <2>1 DEF EarlyInv
<1>5. Pending("data")' /\ (mode' = "blocks" \/ (mode' = "image" /\ dstage' = "SPL"))
        => Len(rcvd') + out'[1].arg.len <= req'.size
  <2>1. Pending("data")' /\ mode' # "cmd" => UNCHANGED <<out, mode>> /\ Pending("data")
    BY <1>1 DEF Pending
  <2>2. Pending("data")' /\ dstage' = "SPL" => dstage = "SPL"
    BY <1>3 DEF Pending
  <2>. QED
    BY <2>1, <2>2 DEF CountInv
<1>6. sec' = "piece" /\ dstage' = "SPL" => Len(rcvd') + LeftToSend' <= req'.size
  <2>. SUFFICES ASSUME sec = "piece", dstage' = "SPL"
                PROVE Len(rcvd') + LeftToSend' <= req'.size
    BY <1>0
  <2>1. dstage = "SPL" /\ ~DevImage /\ ~DevCrash
    BY <1>3 DEF DevCrash
  <2>2. inn # <<>> => UNCHANGED inn
    BY <2>1, AnswerStays
  <2>3. PieceToCome' <=> PieceToCome
    BY <1>0, <2>1, <2>2, PieceAnswers DEF PieceToCome, Replied
  <2>4. LeftToSend' = LeftToSend
    BY <1>0, <2>3 DEF LeftToSend
  <2>. QED
    BY <2>1, <2>4 DEF CountInv
<1>7. Pending("mwrite")' => sec' \in {"mwrite", "failed"}
  BY <1>0, DevOut DEF CountInv, Pending
<1>8. mode' = "blocks" =>
        /\ sec' = "mwrite" /\ Replied("DATAOUT")' => rcvd' = <<>> /\ inn'[1].payload = req'
        /\ sec' = "blocks" =>
            Len(rcvd') + buf'.left + (IF out' = <<>> THEN 0 ELSE out'[1].arg.len) <= req'.size
  <2>. SUFFICES ASSUME mode' = "blocks"
                PROVE /\ sec' = "mwrite" /\ Replied("DATAOUT")' =>
                           rcvd' = <<>> /\ inn'[1].payload = req'
                      /\ sec' = "blocks" =>
                           Len(rcvd') + buf'.left + (IF out' = <<>> THEN 0 ELSE out'[1].arg.len)
                             <= req'.size
    OBVIOUS
  <2>1. Replied("DATAOUT")' => UNCHANGED inn
    BY DataoutSteps
  <2>2. rcvd = <<>> => rcvd' = <<>>
    BY SameLength DEF DevCbw
  <2>. QED
    BY <1>0, <1>4, <2>1, <2>2 DEF CountInv, Replied
<1>9. /\ dstage' = "TPL" /\ mode' \in {"blocks", "checksum"} =>
           ChunkPlace' \subseteq 0 .. PartSize - 1
      /\ written' \subseteq 0 .. PartSize - 1
  <2>1. ChunkPlace' = ChunkPlace
    BY DEF ChunkPlace
  <2>2. dstage' = "TPL" /\ mode' = "checksum" => mode = "checksum" /\ dstage = "TPL"
    BY ModeBegins
  <2>. QED
    BY <1>4, <2>1, <2>2, WrittenSteps DEF CountInv
<1>. QED
  BY <1>2, <1>5, <1>6, <1>7, <1>8, <1>9 DEF CountInv

\* The device's steps keep the counts.
LEMMA DevCount ==
  ASSUME IInv, LeavingInv, PlaceInv, CountInv, DevNext, UNCHANGED hostVars
  PROVE CountInv'
<1>1. EarlyInv /\ ShapeInv /\ ChunkInv
  BY DEF PlaceInv
<1>2. CASE DevImage /\ dstage = "SPL"
  <2>1. mode = "image"
    BY <1>2 DEF DevImage
  <2>. QED
    BY <1>1, <1>2, <2>1, ImageCount
<1>3. CASE DevBlock
  BY <1>1, <1>3, BlockCount
<1>4. CASE DevCbw \/ (DevMwrite /\ mode' = "blocks")
  BY <1>1, <1>4, RequestCount
<1>5. CASE ~(DevImage /\ dstage = "SPL") /\ ~DevBlock /\ ~DevCbw /\ ~(DevMwrite /\ mode' = "blocks")
  <2>1. UNCHANGED req /\ Len(rcvd') = Len(rcvd)
    BY <1>1, <1>5, SameLength
  <2>. QED
    BY <1>1, <1>5, <2>1, QuietCount
<1>. QED
  BY <1>2, <1>3, <1>4, <1>5

\* No data leaves a script while the TPL waits for blocks.
LEMMA NoStrayData ==
  ASSUME IInv, mode = "blocks"
  PROVE sec \notin {"rom", "piece"}
<1>. SUFFICES ASSUME sec \in {"rom", "piece"} PROVE FALSE
  OBVIOUS
<1>1. BeforeErase /\ part = 1
  BY DEF BeforeErase, BeforeParts, IInv, SectionInv
<1>2. cur = 0 /\ cur = part
  BY <1>1 DEF IInv, UntouchedInv, CurInv
<1>. QED
  BY <1>1, <1>2

\* The host sends what the device asked for.
LEMMA SendCount ==
  ASSUME IInv, PlaceInv, CountInv, HostSend
  PROVE CountInv'
<1>0. /\ SectionInv /\ FlightInv /\ ip \in Nat \ {0} /\ ShapeInv /\ EarlyInv
      /\ UNCHANGED <<dstage, mode, rcvd, req, written>>
      /\ UNCHANGED <<inn, sec, ip, buf>> /\ ip <= Len(Script)
      /\ out' = <<[op |-> Row.op, arg |-> Row.arg]>> /\ ~awaiting /\ out = <<>>
  BY DEF IInv, FlightInv, PlaceInv, HostSend, Write, devVars, storage
<1>1. ~Replied("OKAY") \/ sec = "failed"
  BY <1>0 DEF FlightInv, Replied
<1>2. UNCHANGED <<PieceLength, LeftToSend, ChunkPlace>>
  BY <1>0 DEF PieceLength, LeftToSend, PieceToCome, Replied, MinOf, ChunkPlace
<1>3. ASSUME Row.op = "data", mode = "blocks" \/ (mode = "image" /\ dstage = "SPL")
      PROVE Len(rcvd) + Row.arg.len <= req.size
  <2>1. sec \in {"rom", "piece"}
    BY <1>0, <1>3, Rows
  <2>2. dstage = "SPL"
    BY <1>3, <2>1, NoStrayData
  <2>3. sec = "piece"
    BY <1>0, <1>1, <2>1, <2>2 DEF EarlyInv
  <2>4. ip = 2 /\ PieceToCome /\ Row.arg = TplSlice(buf.from, PieceLength)
    <3>1. Row.arg = TplSlice(buf.from, PieceLength)
      BY <1>0, <1>3, <2>3, Rows
    <3>2. ip = 2
      BY <1>0, <1>3, <2>3, PieceRows
    <3>. QED
      BY <1>1, <2>3, <3>1, <3>2 DEF PieceToCome
  <2>5. Len(rcvd) + buf.left <= req.size
    BY <2>2, <2>3, <2>4 DEF CountInv, LeftToSend
  <2>6. Row.arg.len \in Nat /\ Row.arg.len <= PieceLength
    BY <1>0, <2>4, TplPiece DEF ShapeInv
  <2>7. /\ Len(rcvd) \in Nat /\ req.size \in Nat /\ buf.left \in Nat /\ PieceLength \in Nat
        /\ PieceLength <= buf.left
    BY <1>0, CountTypes
  <2>. QED
    BY <2>5, <2>6, <2>7
<1>4. /\ Pending("data")' <=> Row.op = "data"
      /\ Pending("mwrite")' <=> Row.op = "mwrite"
      /\ out'[1].arg = Row.arg
  BY <1>0 DEF Pending
<1>5. Row.op = "mwrite" => sec = "mwrite"
  BY <1>0, Rows
<1>6. sec # "blocks"
  BY <1>0, Lengths
<1>7. Replied("DATAOUT")' <=> Replied("DATAOUT")
  BY <1>0 DEF Replied
<1>. QED
  BY <1>0, <1>2, <1>3, <1>4, <1>5, <1>6, <1>7 DEF CountInv

\* A section begins with nothing in flight, a piece with the rest of its chunk.
LEMMA MovingCount ==
  ASSUME IInv, PlaceInv, CountInv, Moving
  PROVE CountInv'
<1>0. /\ UNCHANGED <<dstage, mode, rcvd, req, written>> /\ out' = <<>> /\ ip' = 1
      /\ (inn' # <<>> => inn'[1].header = "FAIL") /\ ip \in Nat \ {0}
      /\ ChunkInv /\ ShapeInv /\ sec' # "blocks"
  <2>1. /\ UNCHANGED <<setup, devVars, out, inn>> /\ out = <<>> /\ ip' = 1
        /\ (inn # <<>> => inn[1].header = "FAIL")
    BY MovingIsLocal
  <2>2. sec' # "blocks"
    <3>1. CASE HostNextSection
      BY <3>1, Moves, Nexts DEF Goto, HostNextSection, NextPartition
    <3>2. CASE ~HostNextSection
      BY <3>2 DEF Moving, HostFind, HostProbed, HostWaited, HostSecured, HostBl2, HostCbw,
         HostPiece, HostWritten, HostVerified, Goto, NextPartition
    <3>. QED
      BY <3>1, <3>2
  <2>. QED
    BY <2>1, <2>2 DEF devVars, storage, IInv, FlightInv, PlaceInv
<1>1. UNCHANGED ChunkPlace /\ PieceToCome' /\ LeftToSend' = buf'.left
  BY <1>0 DEF ChunkPlace, PieceToCome, LeftToSend
<1>2. ~Pending("data")' /\ ~Pending("mwrite")' /\ ~Replied("DATAOUT")'
  BY <1>0 DEF Pending, Replied
<1>3. ASSUME dstage = "SPL", sec' = "piece"
      PROVE Len(rcvd) + buf'.left <= req.size
  <2>1. CASE HostCbw
    <3>1. sec = "cbw" /\ ip > Len(Script) /\ ~payload.done /\ buf'.left = payload.size
      BY <1>3, <2>1 DEF HostCbw, SectionOver, Goto
    <3>2. ip > 1
      BY <1>0, <3>1, Lengths
    <3>3. rcvd = <<>> /\ payload = req
      BY <1>0, <1>3, <3>1, <3>2 DEF ChunkInv
    <3>4. Len(rcvd) = 0 /\ req.size \in Nat
      BY <1>0, <3>3, CountTypes
    <3>. QED
      BY <3>1, <3>3, <3>4
  <2>2. CASE HostPiece
    <3>1. sec = "piece" /\ buf'.left = buf.left - PieceLength /\ ip > Len(Script)
          /\ Script = PieceScript
      BY <2>2, Scripts DEF HostPiece, Advance, SectionOver
    <3>2. Len(Script) = 2
      BY <3>1 DEF PieceScript
    <3>3. ~PieceToCome
      BY <1>0, <3>1, <3>2 DEF PieceToCome
    <3>. QED
      BY <1>3, <3>1, <3>3 DEF CountInv, LeftToSend
  <2>3. ~HostCbw /\ ~HostPiece => sec' # "piece"
    <3>1. CASE HostFind \/ HostProbed \/ HostWaited \/ HostSecured \/ HostBl2
      BY <3>1 DEF HostFind, HostProbed, HostWaited, HostSecured, HostBl2, Goto
    <3>2. CASE HostNextSection
      BY <3>2, Moves, Nexts DEF Goto, HostNextSection, NextPartition
    <3>3. CASE HostWritten \/ HostVerified
      BY <3>3 DEF HostWritten, HostVerified, Goto, NextPartition
    <3>. QED
      BY <3>1, <3>2, <3>3 DEF Moving
  <2>. QED
    BY <1>3, <2>1, <2>2, <2>3
<1>. QED
  BY <1>0, <1>1, <1>2, <1>3 DEF CountInv

\* The chunk the TPL asked for is what the blocks hold.
LEMMA ChunkCount ==
  ASSUME IInv, PlaceInv, CountInv, HostDataOut \/ HostBlock
  PROVE CountInv'
<1>0. /\ UNCHANGED <<dstage, mode, rcvd, req, written>> /\ ShapeInv
      /\ FlightInv /\ sec \in {"mwrite", "blocks"} /\ mode # "image"
  BY DEF IInv, ModeInv, InPart, PlaceInv, HostDataOut, HostBlock, devVars, storage
<1>1. UNCHANGED ChunkPlace
  BY <1>0 DEF ChunkPlace
<1>2. /\ Len(rcvd) \in Nat /\ req.size \in Nat /\ buf.left \in Nat /\ PieceLength \in Nat
      /\ PieceLength <= buf.left
  BY <1>0, CountTypes
<1>3. CASE HostDataOut
  <2>1. /\ out' = <<>> /\ inn' = <<>> /\ sec' = "blocks" /\ sec = "mwrite"
        /\ Replied("DATAOUT") /\ buf'.left = inn[1].payload.size
    BY <1>0, <1>3 DEF HostDataOut, Goto, FlightInv, Replied
  <2>2. ~Pending("data")' /\ ~Pending("mwrite")'
    BY <2>1 DEF Pending
  <2>3. mode = "blocks" => Len(rcvd) = 0 /\ buf'.left = req.size
    BY <2>1 DEF CountInv
  <2>4. mode = "blocks" => Len(rcvd) + buf'.left <= req.size
    BY <1>2, <2>3
  <2>5. mode = "blocks" => Len(rcvd) + buf'.left + 0 <= req.size
    BY <1>2, <2>3
  <2>. QED
    BY <1>0, <1>1, <2>1, <2>2, <2>5 DEF CountInv
<1>4. CASE HostBlock /\ buf.left > 0
  <2>1. /\ out = <<>> /\ sec = "blocks" /\ sec' = "blocks"
        /\ out' = <<[op |-> "data", arg |-> Slice(PartItem(part), buf.from, PieceLength)]>>
        /\ buf'.left = buf.left - PieceLength
    BY <1>4 DEF HostBlock, Write, Advance
  <2>2. out' # <<>> /\ out'[1].arg.len = PieceLength /\ ~Pending("mwrite")'
    BY <2>1 DEF Slice, Pending
  <2>3. mode = "blocks" => Len(rcvd) + buf.left + 0 <= req.size
    BY <2>1 DEF CountInv
  <2>4. mode = "blocks" => /\ Len(rcvd) + PieceLength <= req.size
                           /\ Len(rcvd) + (buf.left - PieceLength) + PieceLength <= req.size
    BY <1>2, <2>3
  <2>. QED
    BY <1>0, <1>1, <2>1, <2>2, <2>4 DEF CountInv
<1>5. CASE HostBlock /\ ~(buf.left > 0)
  <2>1. UNCHANGED out /\ sec = "blocks" /\ sec' = "tplSum"
    BY <1>5 DEF HostBlock, Goto
  <2>2. ~Pending("mwrite")' /\ (Pending("data")' <=> Pending("data"))
    BY <2>1 DEF CountInv, Pending
  <2>. QED
    BY <1>0, <1>1, <2>1, <2>2 DEF CountInv
<1>. QED
  BY <1>3, <1>4, <1>5

\* Every step keeps the counts.
LEMMA CountNext ==
  ASSUME IInv, LeavingInv, PlaceInv, CountInv, Next
  PROVE CountInv'
<1>1. CASE HostReceive
  <2>0. /\ SectionInv /\ FlightInv /\ ip \in Nat \ {0}
        /\ UNCHANGED <<dstage, mode, rcvd, req, written, out, sec, buf>>
        /\ inn' = <<>> /\ inn # <<>> /\ inn[1].header = Row.expect /\ awaiting
        /\ ip <= Len(Script) /\ ip' = ip + 1
    BY <1>1 DEF IInv, FlightInv, HostReceive, Expected, devVars, storage
  <2>1. UNCHANGED <<PieceLength, ChunkPlace>>
    BY <2>0 DEF PieceLength, MinOf, ChunkPlace
  <2>2. sec = "piece" => LeftToSend' = LeftToSend
    <3>1. sec = "piece" => \/ ip = 1 /\ ip' = 2
                           \/ ip = 2 /\ ip' = 3 /\ Replied("OKAY")
      BY <2>0, PieceRows DEF Replied
    <3>2. sec = "piece" => (PieceToCome' <=> PieceToCome)
      BY <2>0, <3>1 DEF PieceToCome, Replied
    <3>. QED
      BY <2>0, <2>1, <3>2 DEF LeftToSend
  <2>3. sec # "blocks" /\ ~Replied("DATAOUT")'
    BY <2>0, SendingBlocks DEF Replied
  <2>4. UNCHANGED <<Pending("data"), Pending("mwrite")>>
    BY <2>0 DEF Pending
  <2>. QED
    BY <2>0, <2>1, <2>2, <2>3, <2>4 DEF CountInv
<1>2. CASE HostUnexpected \/ HostUsbError
  <2>1. /\ UNCHANGED <<dstage, mode, rcvd, req, written, out>> /\ sec' = "failed"
        /\ UNCHANGED ChunkPlace
    BY <1>2 DEF HostUnexpected, HostUsbError, Fail, Goto, devVars, storage, ChunkPlace
  <2>. QED
    BY <2>1 DEF CountInv, Pending
<1>3. CASE HostBusy
  <2>1. /\ UNCHANGED <<dstage, mode, rcvd, req, written, out, sec>> /\ sec = "verify"
        /\ UNCHANGED ChunkPlace
    BY <1>3 DEF HostBusy, devVars, storage, ChunkPlace
  <2>. QED
    BY <2>1 DEF CountInv, Pending
<1>. QED
  BY <1>1, <1>2, <1>3, DevCount, SendCount, MovingCount, ChunkCount DEF Next, HostNext, Moving

\* The burn begins with simple types and empty counts.
LEMMA TypeInit ==
  ASSUME Init
  PROVE FormInv /\ CountInv
<1>. USE DEF Init, DevInit, HostInit
<1>1. FormInv
  <2>1. addr \in Addresses /\ handle = 0 /\ lastAddr = 0
    BY SetupsAssumption
  <2>2. Len(Script) = 0 /\ Len(out) = 0 /\ Len(inn) = 0 /\ ip = 1
    BY Lengths
  <2>3. awaiting = FALSE /\ secure = FALSE
    OBVIOUS
  <2>4. awaiting \in BOOLEAN /\ secure \in BOOLEAN
    BY Zenon, <2>3
  <2>. QED
    BY <2>1, <2>2, <2>4 DEF FormInv
<1>2. CountInv
  BY DEF CountInv, Pending, NoRequest
<1>. QED
  BY <1>1, <1>2

\* Types and counts, with what they rest on.
THEOREM TypeInvariance == Spec => [](FormInv /\ CountInv)
<1>1. IInv /\ LeavingInv /\ PlaceInv /\ FormInv /\ CountInv /\ [Next]_vars
        => FormInv' /\ CountInv'
  <2>1. ASSUME IInv, LeavingInv, PlaceInv, FormInv, CountInv, Next
        PROVE FormInv' /\ CountInv'
    BY <2>1, FormNext, CountNext DEF PlaceInv
  <2>2. ASSUME FormInv, CountInv, UNCHANGED vars
        PROVE FormInv' /\ CountInv'
    <3>1. /\ UNCHANGED <<setup, addr, handle, lastAddr, out, inn, ip, awaiting, secure, sec>>
          /\ UNCHANGED <<buf, sum, part, rcvd, req, mode, dstage, written>>
      BY <2>2 DEF vars, devVars, storage, hostVars
    <3>2. Script' = Script
      BY <3>1, SameScript
    <3>3. FormInv'
      BY <2>2, <3>1, <3>2 DEF FormInv
    <3>4. CountInv'
      BY <2>2, <3>1 DEF CountInv, Pending, Replied, LeftToSend, PieceToCome, PieceLength,
         MinOf, ChunkPlace
    <3>. QED
      BY <3>3, <3>4
  <2>. QED
    BY <2>1, <2>2
<1>2. Init => FormInv /\ CountInv
  BY TypeInit
<1>. QED
  BY <1>1, <1>2, Invariance, PlaceInvariance, PTL DEF Spec

\* Whatever happens on the wire, both channels hold at most one packet, no more
\* is received than was asked for, and nothing is written beyond a partition.
THEOREM TypeCorrect == Spec => []TypeOK
<1>1. IInv /\ WhereInv /\ PlaceInv /\ FormInv /\ CountInv => TypeOK
  <2>. SUFFICES ASSUME IInv, WhereInv, PlaceInv, FormInv, CountInv PROVE TypeOK
    OBVIOUS
  <2>1. /\ setup \in Setups /\ req.offs \in Nat /\ req.size \in 0 .. MaxRequest
        /\ buf.from \in Nat /\ buf.left \in 0 .. MaxRequest /\ Len(rcvd) \in Nat
    BY DEF PlaceInv, ShapeInv, Request
  <2>2. Len(rcvd) <= MaxRequest /\ written \subseteq 0 .. PartSize - 1
    BY <2>1 DEF CountInv
  <2>3. /\ dstage \in {"OFF", "ROM", "SPL", "TPL"} /\ bootTo \in {"stay", "ROM", "TPL", "OFF"}
        /\ mode \in {"cmd", "burnsteps", "checksum", "image", "blocks", "verifying"}
        /\ cur \in 0 .. NumParts /\ part \in 1 .. NumParts + 1
        /\ flash \in [Parts -> [0 .. PartSize - 1 -> {"old", "erased", "good", "bad"}]]
        /\ ip \in Nat \ {0}
    BY DEF IInv, ModeInv, CurInv, SectionInv, FlightInv
  <2>4. sec \in Ended \cup DOMAIN After \cup
               {"find", "probe", "waitRom", "waitTpl", "secure", "bl2", "cbw",
                "piece", "mwrite", "blocks", "verify"}
    BY DEF IInv, SectionInv, BeforeParts, InPart, AfterParts, Ended, After
  <2>5. ip \in 1 .. Len(Script) + 1
    <3>1. Len(Script) \in Nat
      BY ScriptLength DEF IInv
    <3>. QED
      BY <2>3, <3>1 DEF FormInv
  <2>6. /\ addr \in Addresses /\ Len(out) <= 1 /\ Len(inn) <= 1
        /\ handle \in Addresses \cup {0} /\ lastAddr \in Addresses \cup {0}
        /\ faults \in 0 .. MaxFaults
    BY DEF FormInv, WhereInv
  <2>7. awaiting \in BOOLEAN /\ secure \in BOOLEAN
    BY Zenon DEF FormInv
  <2>. QED
    BY Zenon, <2>1, <2>2, <2>3, <2>4, <2>5, <2>6, <2>7 DEF TypeOK
<1>. QED
  BY <1>1, Invariance, WhereInvariance, PlaceInvariance, TypeInvariance, PTL
=============================================================================
