---------------------------- MODULE OptimusMedia ----------------------------
(***************************************************************************)
(* The U-Boot (TPL) phase of an Optimus burn: the BurnStepCommand and      *)
(* BurnStepDownloadMedia steps of optimus.py in the order of               *)
(* get_burn_steps, with the replies they wait for.                         *)
(*                                                                         *)
(* Bulk commands and media blocks are answered on the same bulk IN pipe    *)
(* ("replies"); the device handles what it was sent in order ("work").     *)
(* Only the answer to a TPL command travels on the control pipe.           *)
(*                                                                         *)
(* Time is counted in the naps of 3 s that follow a reply of "Continue";   *)
(* a read that finds its answer takes none.                                *)
(***************************************************************************)
EXTENDS Integers, Sequences

CONSTANTS
    NumParts,       \* PARTITION and dtb items
    NumBlocks,      \* 64 KiB blocks of each item
    ResendTimes,    \* resend_times, 3 in the code
    ShortPatience,  \* naps that fit into the 3 s of most commands, 1
    InitPatience,   \* into the 60 s of disk_initial, 20
    VerifyPatience, \* into the 150 s of verify, 50
    BlockPatience,  \* into the 10 s of a block, 3
    MaxFaults       \* bound on injected faults

ASSUME MediaAssumption ==
    /\ NumParts \in Nat \ {0} /\ NumBlocks \in Nat \ {0}
    /\ ResendTimes \in Nat /\ MaxFaults \in Nat
    /\ ShortPatience \in Nat \ {0} /\ InitPatience \in Nat \ {0}
    /\ VerifyPatience \in Nat \ {0} /\ BlockPatience \in Nat \ {0}

VARIABLES
    verify,         \* the items with is_verify
    wipe,           \* disk_initial is told to erase
    cmd,            \* command or block the host is at
    waiting,        \* it was sent, its reply is awaited
    part, seq,      \* item and block being downloaded
    retry,          \* retry_times of the block
    left,           \* naps left of the time for the answer
    work,           \* device: packets not yet handled
    replies,        \* device to host: the bulk IN pipe
    flash,          \* device: what each block of each partition holds
    received,       \* device: blocks of the current partition stored
    faults

hostVars == <<cmd, waiting, part, seq, retry, left>>
devVars == <<work, replies, flash, received>>
vars == <<verify, wipe, hostVars, devVars, faults>>

Parts == 1 .. NumParts
Seqs == 0 .. NumBlocks - 1

BulkCmds == {"low_power", "disk_initial", "get_status", "verify",
             "save_setting", "burn_complete"}
Ended == {"done", "failed"}

\* timeout, and the 10 s of _try_write_media.
Patience(c) ==
    CASE c = "disk_initial" -> InitPatience
      [] c = "verify" -> VerifyPatience
      [] c = "block" -> BlockPatience
      [] OTHER -> ShortPatience

Init ==
    /\ verify \in SUBSET Parts
    /\ wipe \in BOOLEAN
    /\ cmd = "low_power"
    /\ waiting = FALSE
    /\ part = 1
    /\ seq = 0
    /\ retry = 0
    /\ left = Patience(cmd)
    /\ work = <<>>
    /\ replies = <<>>
    /\ flash = [p \in Parts |-> [s \in Seqs |-> "old"]]
    /\ received = {}
    /\ faults = 0

Fault == faults < MaxFaults /\ faults' = faults + 1

Fail == cmd' = "failed" /\ waiting' = FALSE /\ UNCHANGED <<part, seq, retry>>

----------------------------------------------------------------------------
(* The order of the steps. *)

\* Mutant of NextPart: the last item is skipped.
SkipLastPart(p) == IF p + 1 < NumParts THEN "download" ELSE "save_setting"

NextPart(p) == IF p < NumParts THEN "download" ELSE "save_setting"

AfterStatus == IF part \in verify THEN "verify" ELSE NextPart(part)

AfterCommand ==
    CASE cmd = "low_power" -> "disk_initial"
      [] cmd = "disk_initial" -> "download"
      [] cmd = "get_status" -> AfterStatus
      [] cmd = "verify" -> NextPart(part)
      [] cmd = "save_setting" -> "burn_complete"
      [] cmd = "burn_complete" -> "done"

\* A partition is left when its last command is answered.
LeavesPart == cmd = "verify" \/ (cmd = "get_status" /\ part \notin verify)

Continue(next) == cmd' = next /\ waiting' = FALSE

\* Mutant of Nap: the clock starts anew.
NapNotCounted == UNCHANGED hostVars

\* A reply of "Continue" costs a nap.  The clock is looked at after it: once all
\* the naps that fit were slept, it depends on what the reads took whether the
\* host reads on.
Nap ==
    \/ left > 0 /\ left' = left - 1 /\ UNCHANGED <<cmd, waiting, part, seq, retry>>
    \/ left <= 1 /\ left' = 0 /\ Fail

----------------------------------------------------------------------------
(* _check_bulk_cmd: send, then read until the answer is not "Continue:34" or *)
(* the time is over.                                                         *)

SendBulk ==
    /\ cmd \in BulkCmds /\ ~waiting
    /\ work' = Append(work, [op |-> cmd, part |-> part, seq |-> 0])
    /\ waiting' = TRUE
    /\ left' = Patience(cmd)
    /\ UNCHANGED <<verify, wipe, cmd, part, seq, retry, replies, flash, received, faults>>

\* Taking the oldest reply from the pipe.
Read == waiting /\ replies # <<>> /\ replies' = Tail(replies)

\* Mutant of Success: the answer is not compared.
AnyAnswer(reply) == TRUE

Success(reply) == reply = "success"

BulkAnswered ==
    /\ cmd \in BulkCmds /\ Read
    /\ CASE Head(replies) = "Continue:34" -> Nap
         [] Success(Head(replies)) ->
              /\ Continue(AfterCommand)
              /\ part' = IF LeavesPart THEN part + 1 ELSE part
              /\ UNCHANGED <<seq, retry, left>>
         [] OTHER -> Fail /\ UNCHANGED left
    /\ UNCHANGED <<verify, wipe, work, flash, received, faults>>

----------------------------------------------------------------------------
(* BurnStepDownloadMedia. *)

\* _send_download: the device answers on the control pipe once it is idle.
SendDownload ==
    /\ cmd = "download" /\ work = <<>>
    /\ \/ /\ Continue("block")
          /\ seq' = 0
          /\ retry' = 0
          /\ received' = {}
          /\ UNCHANGED <<part, faults>>
       \/ Fault /\ Fail /\ UNCHANGED received
    /\ UNCHANGED <<verify, wipe, left, work, replies, flash>>

\* Mutant of Exhausted: one resend too many.
ExhaustedLate == retry > ResendTimes

\* The failed attempt is repeated unless it was the last one allowed.
Exhausted == retry + 1 > ResendTimes

Resend ==
    IF Exhausted THEN Fail
    ELSE retry' = retry + 1 /\ waiting' = FALSE /\ UNCHANGED <<cmd, part, seq>>

\* writeMedia: the whole block is accepted, or only a part of it.
SendBlock ==
    /\ cmd = "block" /\ ~waiting
    /\ work' = Append(work, [op |-> "block", part |-> part, seq |-> seq])
    /\ waiting' = TRUE
    /\ left' = Patience(cmd)
    /\ UNCHANGED <<verify, wipe, cmd, part, seq, retry, replies, flash, received, faults>>

SendShortBlock ==
    /\ cmd = "block" /\ ~waiting
    /\ Fault
    /\ work' = Append(work, [op |-> "short", part |-> part, seq |-> seq])
    /\ Resend
    /\ UNCHANGED <<verify, wipe, left, replies, flash, received>>

Acknowledged(reply) == reply = "OK!!"

NextBlock ==
    IF seq + 1 < NumBlocks
    THEN Continue("block") /\ seq' = seq + 1
    ELSE Continue("get_status") /\ UNCHANGED seq

\* _try_write_media: "Continue:32" asks for patience, anything but "OK!!"
\* for the block to be sent again.
BlockAnswered ==
    /\ cmd = "block" /\ Read
    /\ CASE Head(replies) = "Continue:32" -> Nap
         [] Acknowledged(Head(replies)) ->
              NextBlock /\ retry' = 0 /\ UNCHANGED <<part, left>>
         [] OTHER -> Resend /\ UNCHANGED left
    /\ UNCHANGED <<verify, wipe, work, flash, received, faults>>

\* A read that raises is repeated while there is time.
ReadFails ==
    /\ waiting
    /\ Fault
    /\ left' \in 0 .. left
    /\ UNCHANGED <<verify, wipe, cmd, waiting, part, seq, retry, devVars>>

\* Any other transfer raises, or the time is over when a read has raised.
GiveUp ==
    /\ cmd \notin Ended
    /\ Fault
    /\ Fail
    /\ UNCHANGED <<verify, wipe, left, devVars>>

----------------------------------------------------------------------------
(* The device: U-Boot handles what it was sent in order. *)

Job == Head(work)
Answer(reply) == work' = Tail(work) /\ replies' = Append(replies, reply)

DevBulk ==
    /\ work # <<>> /\ Job.op \in BulkCmds
    /\ Answer(CASE Job.op = "get_status" /\ received # Seqs -> "failed"
                [] Job.op = "verify" /\ \E s \in Seqs : flash[Job.part][s] # "good"
                     -> "failed"
                [] OTHER -> "success")
    /\ flash' = IF Job.op = "disk_initial" /\ wipe
                THEN [p \in Parts |-> [s \in Seqs |-> "erased"]] ELSE flash
    /\ UNCHANGED <<verify, wipe, hostVars, received, faults>>

\* A block is stored at its sequence number if its checksum matches.
DevBlock ==
    /\ work # <<>> /\ Job.op = "block"
    /\ \/ /\ Answer("OK!!")
          /\ flash' = [flash EXCEPT ![Job.part][Job.seq] = "good"]
          /\ received' = received \cup {Job.seq}
          /\ UNCHANGED faults
       \/ /\ Fault
          /\ Answer("ERR")
          /\ UNCHANGED <<flash, received>>
       \/ /\ Fault
          /\ Answer("OK!!")
          /\ flash' = [flash EXCEPT ![Job.part][Job.seq] = "bad"]
          /\ received' = received \cup {Job.seq}
    /\ UNCHANGED <<verify, wipe, hostVars>>

\* A short block is dropped, with or without an error answer.
DevShort ==
    /\ work # <<>> /\ Job.op = "short"
    /\ Answer("ERR") \/ (work' = Tail(work) /\ UNCHANGED replies)
    /\ UNCHANGED <<verify, wipe, hostVars, flash, received, faults>>

\* A long job is announced by Continue replies.
DevBusy ==
    /\ work # <<>> /\ replies = <<>>
    /\ replies' = <<IF Job.op = "block" THEN "Continue:32" ELSE "Continue:34">>
    /\ UNCHANGED <<verify, wipe, hostVars, work, flash, received, faults>>

HostNext ==
    \/ SendBulk \/ BulkAnswered \/ SendDownload \/ SendBlock \/ SendShortBlock
    \/ BlockAnswered \/ ReadFails \/ GiveUp

DevWork == DevBulk \/ DevBlock \/ DevShort

Next == HostNext \/ DevWork \/ DevBusy

Spec == Init /\ [][Next]_vars

\* The host runs on; U-Boot handles the job at hand or asks for patience, and
\* may ask for ever.
Fairness == WF_vars(HostNext) /\ WF_vars(DevWork \/ DevBusy)

FairSpec == Spec /\ Fairness

----------------------------------------------------------------------------

Jobs == [op : BulkCmds \cup {"block", "short"}, part : 1 .. NumParts + 1, seq : Seqs]
Replies == {"success", "failed", "OK!!", "ERR", "Continue:32", "Continue:34"}

\* Every variable stays in its type; the resend counter stays in its limit.
TypeOK ==
    /\ verify \subseteq Parts /\ wipe \in BOOLEAN
    /\ cmd \in BulkCmds \cup Ended \cup {"download", "block"}
    /\ waiting \in BOOLEAN
    /\ part \in 1 .. NumParts + 1 /\ seq \in Seqs
    /\ retry \in 0 .. ResendTimes
    /\ left \in Nat
    /\ work \in Seq(Jobs) /\ replies \in Seq(Replies)
    /\ flash \in [Parts -> [Seqs -> {"old", "erased", "good", "bad"}]]
    /\ received \subseteq Seqs
    /\ faults \in 0 .. MaxFaults

Written(p) == \A s \in Seqs : flash[p][s] \in {"good", "bad"}
Intact(p) == \A s \in Seqs : flash[p][s] = "good"

\* A stale or misread acknowledgement never carries the burn past a partition
\* with a missing block: "download get_status" counts what really arrived.
PassedWritten == \A p \in 1 .. part - 1 : Written(p)

\* A partition with a VERIFY item that was passed holds its image, even if
\* the device stored a block wrongly after acknowledging it.
VerifiedIntact == \A p \in (1 .. part - 1) \cap verify : Intact(p)

\* However often U-Boot asks for patience, and whatever fails, the burn ends:
\* the clock ends every wait.  Without faults, and if no job of U-Boot takes all
\* the time it has, it ends in success (_check_bulk_cmd, _try_write_media).
BurnCompletes ==
    /\ <>(cmd \in Ended)
    /\ [](faults = 0 /\ left > 0) => <>(cmd = "done")

Untouched(p) == \A s \in Seqs : flash[p][s] = "old"
Erased(p) == \A s \in Seqs : flash[p][s] = "erased"

\* A partition holds its image if nothing can tell that it does not.
Imaged(p) == IF p \in verify THEN Intact(p) ELSE Written(p)

\* What the contract sees of a partition.
ContentOf(p) ==
    IF Untouched(p) THEN "old"
    ELSE IF Erased(p) THEN "erased"
    ELSE IF Imaged(p) THEN "image"
    ELSE "partial"

Contract == INSTANCE BurnContract WITH
    content <- [p \in Parts |-> ContentOf(p)],
    outcome <- IF cmd \in Ended THEN cmd ELSE "running"

\* The Optimus burn keeps the same contract as the ADNL burn, where a
\* partition without a VERIFY item counts as written on the device's word.
MediaKeepsContract == Contract!Spec

----------------------------------------------------------------------------
(* The inductive invariant. *)

\* The item at hand and the command agree.
OrderInv ==
    /\ cmd \in {"low_power", "disk_initial"} => part = 1
    /\ cmd \in {"download", "block", "get_status", "verify"} => part \in Parts
    /\ cmd = "verify" => part \in verify
    /\ cmd \in {"save_setting", "burn_complete", "done"} => part = NumParts + 1
    /\ waiting => cmd \in BulkCmds \cup {"block"}

\* The device has only jobs of the item at hand; a command comes last, and it is
\* the one whose answer the host awaits.
WorkInv ==
    \A i \in 1 .. Len(work) :
        /\ work[i].part = part
        /\ work[i].op \in BulkCmds =>
              /\ i = Len(work)
              /\ cmd = "failed" \/ (waiting /\ cmd = work[i].op)
        /\ work[i].op \notin BulkCmds =>
              part \in Parts /\ cmd \in {"block", "get_status", "failed"}
        /\ work[i].op = "disk_initial" =>
              i = 1 /\ part = 1 /\ \A p \in Parts : Untouched(p)
        /\ work[i].op = "verify" => part \in Parts

\* "success" answers the command at hand and nothing else: the device has
\* nothing left to do, and what the command asserts is true.
SuccessInv ==
    cmd # "failed" => \A i \in 1 .. Len(replies) : replies[i] = "success" =>
        /\ i = Len(replies)
        /\ work = <<>>
        /\ waiting /\ cmd \in BulkCmds
        /\ cmd = "get_status" => Written(part)
        /\ cmd = "verify" => Intact(part)

\* A block the device counts is on its flash.
ReceivedInv ==
    cmd \in {"block", "get_status"} =>
        \A s \in received : flash[part][s] \in {"good", "bad"}

\* Nothing is erased before disk_initial is sent, nothing is written to an item
\* before its turn, and nothing is left to do at the end.
TurnInv ==
    /\ cmd = "low_power" \/ (cmd = "disk_initial" /\ ~waiting)
          => \A p \in Parts : Untouched(p)
    /\ cmd = "disk_initial" /\ ~waiting => work = <<>>
    /\ \A p \in part + 1 .. NumParts : Untouched(p) \/ Erased(p)
    /\ cmd = "done" => work = <<>>

\* The inductive invariant: jobs, answers and the flash stay in step with the
\* command the host is at, whatever is sent twice or answered late.
IInv ==
    /\ TypeOK /\ OrderInv /\ WorkInv /\ SuccessInv /\ ReceivedInv /\ TurnInv
    /\ PassedWritten /\ VerifiedIntact
=============================================================================
