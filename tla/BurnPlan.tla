------------------------------ MODULE BurnPlan ------------------------------
(***************************************************************************)
(* What a burn takes from the image: main of ubt.py chooses the protocol,  *)
(* get_burn_steps of optimus.py collects the items, and each step reads    *)
(* its item and sends it block by block.  The exchanges with the board are *)
(* those of OptimusBoot and OptimusMedia; here the board matters by the    *)
(* items its stages ask for, and U-Boot by the status of a download and of *)
(* a verification.                                                         *)
(***************************************************************************)
EXTENDS AmlImage

CONSTANTS
    Boards,         \* flow of the boot phase and whether the board is secure
    FileBlock,      \* block_length of _download_file
    MediaBlock,     \* block_size of _download_media
    DDRSize         \* of the platform configuration, 0 when it gives none

ASSUME PlanAssumption ==
    FileBlock \in Nat \ {0} /\ MediaBlock \in Nat \ {0} /\ DDRSize \in Nat

VARIABLES
    board,
    pc,
    scan,           \* item get_burn_steps is at
    platform,       \* the platform configuration was read
    jobs,           \* reads of the burn steps, in order
    job,            \* number of the job in hand
    written,        \* of _download_file
    sent,           \* bytes sent in the job in hand
    burned          \* items burnt to storage, in order

hostVars == <<pc, scan, platform, jobs, job, written, sent, burned>>
planVars == <<image, itemVars, board, hostVars>>

Ended == {"adnl", "done", "failed"}

PlanInit ==
    /\ ImageInit
    /\ board \in Boards
    /\ pc = "open"
    /\ scan = 0 /\ platform = FALSE
    /\ jobs = <<>> /\ job = 0 /\ written = 0 /\ sent = <<>> /\ burned = <<>>

----------------------------------------------------------------------------
(* The dictionaries of get_burn_steps: the last item of a name wins, and a *)
(* partition keeps the place of the first.                                 *)

Named(main, sub) == {i \in DOMAIN image.items : Item(i).main = main /\ Item(i).sub = sub}

\* Mutant of LastItem: the first item of a name wins.
FirstItem(main, sub) ==
    IF Named(main, sub) = {} THEN 0
    ELSE CHOOSE i \in Named(main, sub) : \A j \in Named(main, sub) : i <= j

LastItem(main, sub) ==
    IF Named(main, sub) = {} THEN 0
    ELSE CHOOSE i \in Named(main, sub) : \A j \in Named(main, sub) : i >= j

VerifyItem(sub) == LastItem("VERIFY", sub)

\* Items that open a step of their own.
IsPart(i) ==
    /\ Item(i).main \in {"PARTITION", "dtb"}
    /\ \A j \in 1 .. i - 1 : Item(j).main = Item(i).main => Item(j).sub # Item(i).sub
    /\ ~(Item(i).main = "dtb" /\ Item(i).sub = "meson1_ENC")

Job(kind, main, sub) == [kind |-> kind, main |-> main, sub |-> sub]

Signed(sub) == IF board.secure THEN sub \o "_ENC" ELSE sub
Ddr == Job("file", "USB", Signed("DDR"))
Uboot == Job("file", "USB", Signed("UBOOT"))
Sum == Job("sum", "USB", Signed("UBOOT"))
HasUboot == Job("find", "USB", Signed("UBOOT"))
HasDdr == Job("find", "USB", Signed("DDR"))

\* The reads of BurnStepDownloadSPL and BurnStepDownloadUboot: a board that
\* returns to the ROM, one that stays in the SPL, one without parameters, one
\* that asks for U-Boot piece by piece (AmlcBoot), and one that is in U-Boot.
BootJobs ==
    IF board.flow = "ipl" THEN <<HasDdr, Ddr, HasUboot, Uboot, Ddr, Sum, Ddr>>
    ELSE IF board.flow = "spl" THEN <<HasDdr, Ddr, HasUboot, Uboot, Sum>>
    ELSE IF board.flow = "old" THEN <<HasDdr, Ddr, HasUboot, Uboot, Ddr>>
    ELSE IF board.flow = "amlc" THEN <<HasDdr, Ddr, HasUboot>>
    ELSE <<HasUboot>>

\* _send_download: the encrypted device tree for a secure board, when the
\* image has one that is not empty.
PartName(i) ==
    LET enc == LastItem("dtb", "meson1_ENC")
    IN  IF /\ Item(i).main = "dtb" /\ Item(i).sub = "meson1" /\ board.secure
           /\ enc # 0 /\ Item(enc).size # 0
        THEN "meson1_ENC" ELSE Item(i).sub

\* The step an item opens, if any, and the steps of the first n items.
PartJob(i) == IF IsPart(i) THEN <<Job("media", Item(i).main, PartName(i))>> ELSE <<>>

JobsUpTo[n \in 0 .. Len(image.items)] ==
    IF n = 0 THEN <<>> ELSE JobsUpTo[n - 1] \o PartJob(n)

PartJobs == JobsUpTo[Len(image.items)]

ThisJob == jobs[job]
Source == LastItem(ThisJob.main, ThisJob.sub)

----------------------------------------------------------------------------

Goto(label) == pc' = label /\ UNCHANGED <<scan, platform, jobs, job>>
NothingRead == UNCHANGED itemVars
KeepSent == UNCHANGED <<written, sent, burned>>

\* AmlImagePack
Open ==
    /\ pc = "open"
    /\ Goto(IF Openable THEN "choose" ELSE "failed")
    /\ NothingRead /\ KeepSent

\* main: an image with a usb_flow item is for ADNL.
Choose ==
    /\ pc = "choose"
    /\ Goto(IF ItemGet("aml", "usb_flow") # 0 THEN "adnl" ELSE "collect")
    /\ NothingRead /\ KeepSent

\* The loop over the items; a platform configuration that is not there whole
\* lacks a value Platform requires.
Collect ==
    /\ pc = "collect" /\ scan < Len(image.items)
    /\ LET i == scan + 1
       IN  IF Item(i).main = "conf" /\ Item(i).sub = "platform"
           THEN /\ Read(i, -1)
                /\ platform' = TRUE
                /\ pc' = IF got' = Content(i) /\ Len(got') = Item(i).size
                         THEN pc ELSE "failed"
           ELSE NothingRead /\ UNCHANGED <<pc, platform>>
    /\ scan' = scan + 1
    /\ UNCHANGED <<jobs, job>> /\ KeepSent

\* RuntimeError without a platform configuration.
Plan ==
    /\ pc = "collect" /\ scan = Len(image.items)
    /\ pc' = IF platform THEN "next" ELSE "failed"
    /\ jobs' = BootJobs \o PartJobs
    /\ UNCHANGED <<scan, platform, job>> /\ NothingRead /\ KeepSent

NextJob ==
    /\ pc = "next"
    /\ IF job = Len(jobs) THEN pc' = "done" /\ UNCHANGED job
       ELSE job' = job + 1 /\ pc' = jobs[job + 1].kind
    /\ written' = 0 /\ sent' = <<>>
    /\ UNCHANGED <<scan, platform, jobs, burned>> /\ NothingRead

\* _update_part: ValueError when the image has no such item.
Find ==
    /\ pc = "find"
    /\ Goto(IF Source = 0 THEN "failed" ELSE "next")
    /\ NothingRead /\ KeepSent

\* What _download_file is to send: only the SPL has a limit.
FileSize ==
    IF ThisJob.sub # Signed("DDR") \/ DDRSize = 0 \/ DDRSize > Item(Source).size
    THEN Item(Source).size ELSE DDRSize

\* Mutant of StartFile: the item is not rewound.
StartFileAnywhere ==
    /\ pc = "file"
    /\ Goto("fileBlock")
    /\ NothingRead /\ KeepSent

StartFile ==
    /\ pc = "file"
    /\ Seek(Source, 0, 0)
    /\ Goto("fileBlock")
    /\ KeepSent

\* Mutant of Counted: what was read is counted, not what was asked for.
CountedRead == Len(got')

\* The counter moves by a block whatever was read.
Counted == FileBlock

FileStep ==
    /\ pc = "fileBlock" /\ written < FileSize
    /\ Read(Source, FileBlock)
    /\ IF got' = <<>> THEN Goto("fileEnd") /\ UNCHANGED <<written, sent>>
       ELSE /\ written' = written + Counted
            /\ sent' = sent \o got'
            /\ Goto("fileBlock")
    /\ UNCHANGED burned

\* The assertion at the end of _download_file.
EndFile ==
    /\ pc \in {"fileBlock", "fileEnd"}
    /\ pc = "fileBlock" => written >= FileSize
    /\ Goto(IF written >= FileSize THEN "next" ELSE "failed")
    /\ NothingRead /\ KeepSent

\* _update_ddr: the item is rewound, read whole for its checksum, and rewound.
SumRewind ==
    /\ pc \in {"sum", "sumEnd"}
    /\ Seek(Source, 0, 0)
    /\ Goto(IF pc = "sum" THEN "sumRead" ELSE "next")
    /\ KeepSent

\* _chksum unpacks one or three bytes at the end of the data as if they were
\* more, which raises.
ChksumRaises(data) == Len(data) % 2 = 1

SumRead ==
    /\ pc = "sumRead"
    /\ Read(Source, -1)
    /\ sent' = got'
    /\ Goto(IF ChksumRaises(got') THEN "failed" ELSE "sumEnd")
    /\ UNCHANGED <<written, burned>>

\* _send_download: KeyError for a file type without a name.
StartMedia ==
    /\ pc = "media"
    /\ Goto(IF Item(Source).type \in KnownTypes THEN "mediaBlock" ELSE "failed")
    /\ NothingRead /\ KeepSent

\* _amlsChecksum, which writeMedia calls, raises on one byte at the end.
AmlsChecksumRaises(data) == Len(data) % 4 = 1

\* _download_media: no rewind, and the end is an empty read.
MediaStep ==
    /\ pc = "mediaBlock"
    /\ Read(Source, MediaBlock)
    /\ IF AmlsChecksumRaises(got') THEN Goto("failed") /\ UNCHANGED sent
       ELSE /\ sent' = sent \o got'
            /\ Goto(IF got' = <<>> THEN "status" ELSE "mediaBlock")
    /\ UNCHANGED <<written, burned>>

\* U-Boot reports success when it has as many bytes as were announced.
DownloadStatus == Len(sent) = Item(Source).size

Status ==
    /\ pc = "status"
    /\ IF ~DownloadStatus THEN Goto("failed") /\ UNCHANGED burned
       ELSE IF Item(Source).verify THEN Goto("verify") /\ UNCHANGED burned
       ELSE Goto("next") /\ burned' = Append(burned, Source)
    /\ NothingRead /\ UNCHANGED <<written, sent>>

\* U-Boot compares the digest with what it stored, if the text is whole and
\* belongs to the partition.
DigestMatches(v) == got' = FileBytes(Item(v).file, Item(v).offset, TextLength)
                    /\ Len(got') = TextLength /\ Item(v).of = ThisJob.main

\* _verify_media: KeyError without a VERIFY item; the text is read, not sought.
Verify ==
    /\ pc = "verify"
    /\ LET v == VerifyItem(ThisJob.sub)
       IN  IF v = 0 THEN Goto("failed") /\ NothingRead /\ UNCHANGED burned
           ELSE /\ Read(v, -1)
                /\ IF DigestMatches(v)
                   THEN Goto("next") /\ burned' = Append(burned, Source)
                   ELSE Goto("failed") /\ UNCHANGED burned
    /\ UNCHANGED <<written, sent>>

\* do_adnl_burn reads and seeks the items in the order the device asks for
\* (Adnl); what it sends is not followed here.
AdnlReads == pc = "adnl" /\ Next /\ UNCHANGED hostVars

PlanNext ==
    /\ \/ Open \/ Choose \/ Collect \/ Plan \/ NextJob \/ Find
       \/ StartFile \/ FileStep \/ EndFile \/ SumRewind \/ SumRead
       \/ StartMedia \/ MediaStep \/ Status \/ Verify
       \/ AdnlReads
    /\ UNCHANGED <<image, board>>

PlanSpec == PlanInit /\ [][PlanNext]_planVars /\ WF_planVars(PlanNext)

----------------------------------------------------------------------------

\* What a job is to send of its item, in whole blocks where it has a limit.
Wanted ==
    IF ThisJob.kind = "file"
    THEN MinOf(Item(Source).size, ((FileSize + FileBlock - 1) \div FileBlock) * FileBlock)
    ELSE Item(Source).size

\* Whatever was read of other items before: a job sends the bytes of its own
\* item from the first one on, in order, and one that passed has sent all there
\* is of them.  A download to storage is then complete; in memory, of an image
\* file that is cut, at most the tail of the last block is missing (the
\* assertion at the end of _download_file counts blocks, not bytes).
PassesWhole ==
    job > 0 /\ pc \notin Ended /\ ThisJob.kind # "find" =>
        /\ sent = SubSeq(Content(Source), 1, Len(sent))
        /\ pc = "next" =>
              /\ Len(sent) = MinOf(Wanted, Len(Content(Source)))
              /\ ThisJob.kind = "media" => Len(sent) = Wanted
              /\ ThisJob.kind = "file" /\ FileSize > 0 => Len(sent) > FileSize - FileBlock

Name(i) == <<Item(i).main, Item(i).sub>>
PartNames == {Name(i) : i \in {i \in DOMAIN image.items : Item(i).main \in {"PARTITION", "dtb"}}}
PlainTree == <<"dtb", "meson1">>
SignedTree == <<"dtb", "meson1_ENC">>
TakesSigned ==
    /\ board.secure /\ {PlainTree, SignedTree} \subseteq PartNames
    /\ Item(LastItem("dtb", "meson1_ENC")).size # 0

First(name) ==
    LET n == IF name = SignedTree THEN PlainTree ELSE name
    IN  CHOOSE i \in DOMAIN image.items : Name(i) = n /\ \A j \in 1 .. i - 1 : Name(j) # n

\* A burn that succeeds has burnt every partition and device tree of the image
\* once, the last item of each name at the place of the first, and one of the
\* two device trees of a board that can be secure (get_burn_steps).
RightSteps ==
    pc = "done" =>
        /\ {Name(burned[n]) : n \in DOMAIN burned} =
              PartNames \ {IF TakesSigned THEN PlainTree ELSE SignedTree}
        /\ \A n \in DOMAIN burned, i \in DOMAIN image.items :
              Name(i) = Name(burned[n]) => i <= burned[n]
        /\ \A n, o \in DOMAIN burned :
              n < o => First(Name(burned[n])) < First(Name(burned[o]))

\* A block of a file job begins where the image file has ended already.
FileCut(i, size) == \E b \in 0 .. size - 1 : b % FileBlock = 0 /\ b >= Len(Content(i))

Cut(i) == Len(Content(i)) < Item(i).size

\* VERIFY items are found by sub type alone, and each can be read once.
DigestLost(i) ==
    LET v == VerifyItem(Item(i).sub)
    IN  \/ v = 0
        \/ Item(v).of # Item(i).main
        \/ MinOf(Item(v).size, Len(Content(v))) < TextLength

Ddrs == LastItem("USB", Signed("DDR"))
Uboots == LastItem("USB", Signed("UBOOT"))

BootDoomed ==
    \/ Uboots = 0
    \/ board.flow # "tpl" /\ (\/ Ddrs = 0
                             \/ FileCut(Ddrs, IF DDRSize = 0 THEN Item(Ddrs).size
                                             ELSE MinOf(DDRSize, Item(Ddrs).size)))
    \/ board.flow \notin {"tpl", "amlc"} /\ FileCut(Uboots, Item(Uboots).size)
    \/ board.flow \in {"ipl", "spl"} /\ Len(Content(Uboots)) % 2 # 0

Burnt == {LastItem(n[1], n[2]) :
              n \in PartNames \ {IF TakesSigned THEN PlainTree ELSE SignedTree}}

PartDoomed(i) ==
    \/ Item(i).type \notin KnownTypes
    \/ Cut(i)
    \/ (Item(i).size % MediaBlock) % 4 = 1
    \/ Item(i).verify /\ DigestLost(i)

Configured == \E i \in DOMAIN image.items : Name(i) = <<"conf", "platform">>
ConfigCut == \E i \in DOMAIN image.items : Name(i) = <<"conf", "platform">> /\ Cut(i)

\* The outcome the image and the board determine.
Outcome ==
    IF ~Openable THEN "failed"
    ELSE IF \E i \in DOMAIN image.items : Name(i) = <<"aml", "usb_flow">> THEN "adnl"
    ELSE IF ~Configured \/ ConfigCut \/ BootDoomed \/ \E i \in Burnt : PartDoomed(i)
    THEN "failed"
    ELSE "done"

\* Every burn ends, and it fails exactly when the image cannot serve the
\* board: items missing or cut by a block, a file type without a name, a digest
\* that is missing, generated for a partition shorter than the text, or that of
\* another partition of the same sub type; and a U-Boot of an odd length, or a
\* partition that ends in a block of 4k+1 bytes, whose checksum raises.  An
\* image for ADNL is left to Adnl.
BurnEndsAs == <>[](pc = Outcome)
=============================================================================
