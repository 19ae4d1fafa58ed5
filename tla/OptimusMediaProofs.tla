------------------------- MODULE OptimusMediaProofs -------------------------
(***************************************************************************)
(* Proofs about OptimusMedia for every number of items, blocks, resends    *)
(* and faults.                                                             *)
(***************************************************************************)
EXTENDS OptimusMedia, SequenceTheorems, TLAPS

USE MediaAssumption

----------------------------------------------------------------------------
(* Queues, and the alternatives of the answers. *)

\* What is left of a queue whose oldest element is taken.
LEMMA TakeOldest ==
  ASSUME NEW S, NEW q \in Seq(S), q # <<>>
  PROVE /\ Tail(q) \in Seq(S) /\ Head(q) = q[1] /\ Head(q) \in S
        /\ Len(q) \in Nat \ {0} /\ Len(Tail(q)) = Len(q) - 1
        /\ \A i \in 1 .. Len(Tail(q)) : i + 1 \in 1 .. Len(q) /\ Tail(q)[i] = q[i + 1]
        /\ Len(q) = 1 => Tail(q) = <<>>
<1>1. /\ Tail(q) \in Seq(S) /\ Head(q) \in S /\ Len(Tail(q)) = Len(q) - 1
      /\ \A i \in 1 .. Len(Tail(q)) : Tail(q)[i] = q[i + 1]
  BY HeadTailProperties
<1>2. Head(q) = q[1]
  OBVIOUS
<1>3. Len(q) \in Nat \ {0}
  BY EmptySeq
<1>4. Len(q) = 1 => Tail(q) = <<>>
  <2>1. Tail(q) # <<>> => Len(Tail(q)) \in Nat \ {0}
    BY <1>1, EmptySeq
  <2>. QED
    BY <1>1, <1>3, <2>1
<1>5. \A i \in 1 .. Len(Tail(q)) : i + 1 \in 1 .. Len(q)
  BY <1>1, <1>3
<1>. QED
  BY <1>1, <1>2, <1>3, <1>4, <1>5

\* A queue after one element more.
LEMMA AddNewest ==
  ASSUME NEW S, NEW q \in Seq(S), NEW e \in S
  PROVE /\ Append(q, e) \in Seq(S)
        /\ Len(q) \in Nat /\ Len(Append(q, e)) = Len(q) + 1
        /\ \A i \in 1 .. Len(q) : Append(q, e)[i] = q[i]
        /\ Append(q, e)[Len(q) + 1] = e
        /\ Append(q, e) # <<>>
BY AppendProperties

\* An answer to a command asks for patience, confirms it, or ends the burn.
LEMMA BulkCases ==
  ASSUME BulkAnswered
  PROVE \/ Nap
        \/ /\ Head(replies) = "success"
           /\ Continue(AfterCommand)
           /\ part' = IF LeavesPart THEN part + 1 ELSE part
           /\ UNCHANGED <<seq, retry, left>>
        \/ Fail /\ UNCHANGED left
BY Zenon DEF BulkAnswered, Success

\* An answer to a block asks for patience, confirms it, or has it sent again.
LEMMA BlockCases ==
  ASSUME BlockAnswered
  PROVE \/ Nap
        \/ NextBlock /\ retry' = 0 /\ UNCHANGED <<part, left>>
        \/ Resend /\ UNCHANGED left
BY Zenon DEF BlockAnswered

\* Every answer is given some time.
LEMMA PatienceType == \A c : Patience(c) \in Nat
BY DEF Patience

\* After a nap the host reads on, or the time is over.
LEMMA NapCases ==
  ASSUME IInv, Nap
  PROVE /\ left' \in Nat
        /\ UNCHANGED <<cmd, waiting, part, seq, retry>> \/ Fail
BY DEF IInv, TypeOK, Nap

\* Where the burn stands after a command.
LEMMA AfterCases ==
  /\ cmd = "low_power" => AfterCommand = "disk_initial"
  /\ cmd = "disk_initial" => AfterCommand = "download"
  /\ cmd = "get_status" => AfterCommand = IF part \in verify THEN "verify" ELSE NextPart(part)
  /\ cmd = "verify" => AfterCommand = NextPart(part)
  /\ cmd = "save_setting" => AfterCommand = "burn_complete"
  /\ cmd = "burn_complete" => AfterCommand = "done"
BY Zenon DEF AfterCommand, AfterStatus

\* What the device answers to a command.
LEMMA DevBulkCases ==
  ASSUME DevBulk
  PROVE \E r \in {"success", "failed"} :
           /\ Answer(r)
           /\ r = "success" /\ Job.op = "get_status" => received = Seqs
           /\ r = "success" /\ Job.op = "verify" => Intact(Job.part)
BY Zenon DEF DevBulk, Intact

----------------------------------------------------------------------------
(* One lemma per action of the host. *)

\* Nothing was done yet.
LEMMA InitIInv == Init => IInv
<1>. SUFFICES ASSUME Init PROVE IInv
  OBVIOUS
<1>. USE DEF Init
<1>1. TypeOK
  <2>1. <<>> \in Seq(Jobs) /\ <<>> \in Seq(Replies)
    BY EmptySeq
  <2>2. 1 \in 1 .. NumParts + 1 /\ 0 \in Seqs /\ 0 \in 0 .. ResendTimes /\ 0 \in 0 .. MaxFaults
    BY DEF Seqs
  <2>. QED
    BY <2>1, <2>2, PatienceType DEF TypeOK, BulkCmds
<1>2. OrderInv /\ ReceivedInv
  BY DEF OrderInv, ReceivedInv
<1>3. WorkInv /\ SuccessInv
  <2>1. Len(<<>>) = 0
    OBVIOUS
  <2>. QED
    BY <2>1 DEF WorkInv, SuccessInv
<1>4. TurnInv
  BY DEF TurnInv, Untouched, Parts
<1>5. PassedWritten /\ VerifiedIntact
  BY DEF PassedWritten, VerifiedIntact
<1>. QED
  BY <1>1, <1>2, <1>3, <1>4, <1>5 DEF IInv

\* What is known of the flash does not change when nothing it speaks of does.
LEMMA FlashKept ==
  ASSUME IInv, UNCHANGED <<verify, part, flash>>
  PROVE /\ PassedWritten' /\ VerifiedIntact'
        /\ (\A p \in Parts : Untouched(p))' <=> (\A p \in Parts : Untouched(p))
        /\ (\A p \in part + 1 .. NumParts : Untouched(p) \/ Erased(p))'
        /\ Written(part)' = Written(part) /\ Intact(part)' = Intact(part)
<1>1. PassedWritten' /\ VerifiedIntact'
  BY DEF IInv, PassedWritten, VerifiedIntact, Written, Intact
<1>2. (\A p \in Parts : Untouched(p))' <=> (\A p \in Parts : Untouched(p))
  BY DEF Untouched
<1>3. (\A p \in part + 1 .. NumParts : Untouched(p) \/ Erased(p))'
  BY DEF IInv, TurnInv, Untouched, Erased
<1>4. Written(part)' = Written(part) /\ Intact(part)' = Intact(part)
  BY DEF Written, Intact
<1>. QED
  BY <1>1, <1>2, <1>3, <1>4

\* Faults stay within their bound.
LEMMA FaultType ==
  ASSUME IInv, Fault
  PROVE faults' \in 0 .. MaxFaults
BY DEF IInv, TypeOK, Fault

\* Giving up changes no type.
LEMMA FailType ==
  ASSUME IInv, Fail, UNCHANGED <<verify, wipe, flash, received>>,
         work' \in Seq(Jobs), replies' \in Seq(Replies), faults' \in 0 .. MaxFaults,
         left' \in Nat
  PROVE TypeOK'
BY DEF IInv, TypeOK, Fail, Ended

\* Giving up leaves the device with the jobs it has.
LEMMA FailStep ==
  ASSUME IInv, Fail, TypeOK', UNCHANGED <<verify, flash, work>>
  PROVE IInv'
<1>. USE DEF IInv, Fail
<1>1. cmd' = "failed" /\ waiting' = FALSE /\ part' = part
  OBVIOUS
<1>2. OrderInv' /\ SuccessInv' /\ ReceivedInv'
  BY <1>1 DEF OrderInv, SuccessInv, ReceivedInv
<1>3. WorkInv'
  BY <1>1, FlashKept DEF WorkInv
<1>4. TurnInv'
  BY <1>1, FlashKept DEF TurnInv
<1>. QED
  BY <1>2, <1>3, <1>4, FlashKept

\* A command is sent when the device has nothing but blocks to handle, and no
\* earlier command is left to confirm.
LEMMA SendBulkStep == IInv /\ SendBulk => IInv'
<1>. SUFFICES ASSUME IInv, SendBulk PROVE IInv'
  OBVIOUS
<1>. USE DEF IInv, SendBulk
<1>1. PICK job \in Jobs : job = [op |-> cmd, part |-> part, seq |-> 0]
  <2>1. 0 \in Seqs
    BY DEF Seqs
  <2>. QED
    BY <2>1 DEF Jobs, TypeOK
<1>2. /\ work' = Append(work, job) /\ work \in Seq(Jobs) /\ waiting' = TRUE
      /\ job.op = cmd /\ job.part = part /\ cmd \in BulkCmds /\ ~waiting
      /\ UNCHANGED <<verify, wipe, cmd, part, seq, retry, replies, flash, received, faults>>
  BY <1>1 DEF TypeOK
<1>. HIDE DEF SendBulk
<1>3. /\ work' \in Seq(Jobs) /\ Len(work) \in Nat /\ Len(work') = Len(work) + 1
      /\ \A i \in 1 .. Len(work) : work'[i] = work[i]
      /\ work'[Len(work) + 1] = job
  BY <1>1, <1>2, AddNewest
<1>4. TypeOK'
  <2>1. left' \in Nat
    BY PatienceType DEF SendBulk
  <2>. QED
    BY <1>2, <1>3, <2>1 DEF TypeOK
<1>5. OrderInv' /\ ReceivedInv'
  BY <1>2 DEF OrderInv, ReceivedInv
<1>6. WorkInv'
  <2>. SUFFICES ASSUME NEW i \in 1 .. Len(work')
       PROVE /\ work'[i].part = part
             /\ work'[i].op \in BulkCmds =>
                   i = Len(work') /\ (cmd = "failed" \/ cmd = work'[i].op)
             /\ work'[i].op \notin BulkCmds =>
                   part \in Parts /\ cmd \in {"block", "get_status", "failed"}
             /\ work'[i].op = "disk_initial" =>
                   i = 1 /\ part = 1 /\ \A p \in Parts : Untouched(p)
             /\ work'[i].op = "verify" => part \in Parts
    BY <1>2, FlashKept DEF WorkInv
  <2>1. CASE i \in 1 .. Len(work)
    <3>1. work'[i] = work[i] /\ work[i].op \notin BulkCmds
      BY <1>2, <1>3, <2>1 DEF WorkInv, BulkCmds
    <3>. QED
      BY <1>2, <2>1, <3>1 DEF WorkInv, BulkCmds
  <2>2. CASE i = Len(work')
    <3>1. work'[i] = job
      BY <1>3, <2>2
    <3>. QED
      BY <1>2, <1>3, <2>2, <3>1 DEF OrderInv, TurnInv
  <2>. QED
    BY <1>3, <2>1, <2>2
<1>7. SuccessInv'
  BY <1>2 DEF SuccessInv, BulkCmds
<1>8. TurnInv'
  BY <1>2, FlashKept DEF TurnInv, BulkCmds
<1>. QED
  BY <1>2, <1>4, <1>5, <1>6, <1>7, <1>8, FlashKept

\* Reading an answer leaves a queue of answers in which "success" is still last.
LEMMA ReadReply ==
  ASSUME IInv, Read
  PROVE /\ replies' \in Seq(Replies)
        /\ cmd # "failed" /\ waiting
        /\ \A i \in 1 .. Len(replies') : replies'[i] = "success" =>
              /\ i = Len(replies')
              /\ work = <<>>
              /\ cmd \in BulkCmds
              /\ cmd = "get_status" => Written(part)
              /\ cmd = "verify" => Intact(part)
        /\ Head(replies) = "success" =>
              /\ replies' = <<>> /\ work = <<>> /\ cmd \in BulkCmds
              /\ cmd = "get_status" => Written(part)
              /\ cmd = "verify" => Intact(part)
<1>1. replies \in Seq(Replies) /\ replies # <<>> /\ replies' = Tail(replies)
  BY DEF Read, IInv, TypeOK
<1>2. cmd # "failed" /\ waiting
  BY DEF Read, IInv, OrderInv, BulkCmds
<1>3. /\ replies' \in Seq(Replies) /\ Head(replies) = replies[1]
      /\ Len(replies) \in Nat \ {0} /\ Len(replies') = Len(replies) - 1
      /\ \A i \in 1 .. Len(replies') :
            i + 1 \in 1 .. Len(replies) /\ replies'[i] = replies[i + 1]
      /\ Len(replies) = 1 => replies' = <<>>
  BY <1>1, TakeOldest
<1>4. ASSUME NEW i \in 1 .. Len(replies), replies[i] = "success"
      PROVE /\ i = Len(replies)
            /\ work = <<>> /\ cmd \in BulkCmds
            /\ cmd = "get_status" => Written(part)
            /\ cmd = "verify" => Intact(part)
  BY <1>2, <1>4 DEF IInv, SuccessInv
<1>5. ASSUME NEW i \in 1 .. Len(replies'), replies'[i] = "success"
      PROVE /\ i = Len(replies')
            /\ work = <<>> /\ cmd \in BulkCmds
            /\ cmd = "get_status" => Written(part)
            /\ cmd = "verify" => Intact(part)
  <2>1. i + 1 \in 1 .. Len(replies) /\ replies[i + 1] = "success"
    BY <1>3, <1>5
  <2>2. i + 1 = Len(replies) => i = Len(replies')
    BY <1>3
  <2>. QED
    BY <1>4, <2>1, <2>2
<1>6. 1 \in 1 .. Len(replies)
  BY <1>3
<1>. QED
  BY <1>2, <1>3, <1>4, <1>5, <1>6

\* Waiting on changes nothing but the answers left to read.
LEMMA WaitOn ==
  ASSUME IInv, Read, left' \in Nat,
         UNCHANGED <<cmd, waiting, part, seq, retry, verify, wipe, work, flash, received, faults>>
  PROVE IInv'
<1>. USE DEF IInv
<1>1. TypeOK' /\ OrderInv' /\ ReceivedInv'
  BY ReadReply DEF TypeOK, OrderInv, ReceivedInv
<1>2. WorkInv'
  BY FlashKept DEF WorkInv
<1>3. SuccessInv'
  BY ReadReply, FlashKept DEF SuccessInv
<1>4. TurnInv'
  BY FlashKept DEF TurnInv
<1>. QED
  BY <1>1, <1>2, <1>3, <1>4, FlashKept

\* A confirmed command was carried out: the burn goes on with nothing in flight,
\* and passes an item only when its content is what it has to be.
LEMMA BulkConfirmed ==
  ASSUME IInv, Read, Head(replies) = "success", Continue(AfterCommand),
         part' = IF LeavesPart THEN part + 1 ELSE part,
         UNCHANGED <<seq, retry, left, verify, wipe, work, flash, received, faults>>
  PROVE IInv'
<1>. USE DEF IInv, Continue
<1>1. /\ work = <<>> /\ replies' = <<>> /\ cmd \in BulkCmds
      /\ cmd = "get_status" => Written(part)
      /\ cmd = "verify" => Intact(part)
  BY ReadReply
<1>2. /\ work' = <<>> /\ waiting' = FALSE /\ cmd' = AfterCommand
      /\ Len(work') = 0 /\ Len(replies') = 0
  BY <1>1
<1>3. \/ /\ cmd = "low_power" /\ cmd' = "disk_initial" /\ part' = part /\ part = 1
      \/ /\ cmd = "disk_initial" /\ cmd' = "download" /\ part' = part /\ part = 1
      \/ /\ cmd = "get_status" /\ part \in verify /\ cmd' = "verify" /\ part' = part
         /\ part \in Parts
      \/ /\ \/ cmd = "get_status" /\ part \notin verify /\ Written(part)
            \/ cmd = "verify" /\ part \in verify /\ Intact(part)
         /\ part \in Parts /\ part' = part + 1
         /\ cmd' = IF part < NumParts THEN "download" ELSE "save_setting"
      \/ /\ cmd = "save_setting" /\ cmd' = "burn_complete" /\ part' = part
         /\ part = NumParts + 1
      \/ /\ cmd = "burn_complete" /\ cmd' = "done" /\ part' = part
         /\ part = NumParts + 1
  BY <1>1, AfterCases DEF BulkCmds, LeavesPart, NextPart, OrderInv
<1>4. part' \in {part, part + 1} /\ part' \in 1 .. NumParts + 1
  BY <1>3 DEF TypeOK, Parts
<1>5. TypeOK'
  <2>1. cmd' \in BulkCmds \cup Ended \cup {"download", "block"}
    BY <1>3 DEF BulkCmds, Ended
  <2>. QED
    BY <1>1, <1>2, <1>4, <2>1, ReadReply DEF TypeOK
<1>6. OrderInv'
  BY <1>2, <1>3 DEF OrderInv, Parts
<1>7. WorkInv' /\ SuccessInv'
  BY <1>2 DEF WorkInv, SuccessInv
<1>8. ReceivedInv'
  BY <1>3 DEF ReceivedInv
<1>9. TurnInv'
  <2>1. cmd' = "disk_initial" => \A p \in Parts : Untouched(p)
    BY <1>3 DEF TurnInv
  <2>2. part + 1 .. NumParts \subseteq Int /\ part' + 1 .. NumParts \subseteq part + 1 .. NumParts
    BY <1>4 DEF TypeOK
  <2>3. cmd' # "low_power"
    BY <1>3
  <2>. QED
    BY <1>2, <2>1, <2>2, <2>3 DEF TurnInv, Untouched, Erased
<1>10. PassedWritten' /\ VerifiedIntact'
  <2>1. \A p \in 1 .. part' - 1 : p \in 1 .. part - 1 \/ (p = part /\ part' = part + 1)
    BY <1>4 DEF TypeOK
  <2>2. part' = part + 1 => Written(part) /\ (part \in verify => Intact(part))
    BY <1>3 DEF TypeOK, Written, Intact
  <2>. QED
    BY <2>1, <2>2 DEF PassedWritten, VerifiedIntact, Written, Intact
<1>. QED
  BY <1>5, <1>6, <1>7, <1>8, <1>9, <1>10

\* An answer to a command is waited out, confirms it, or ends the burn.
LEMMA BulkAnsweredStep == IInv /\ BulkAnswered => IInv'
<1>. SUFFICES ASSUME IInv, BulkAnswered PROVE IInv'
  OBVIOUS
<1>1. Read /\ UNCHANGED <<verify, wipe, work, flash, received, faults>>
  BY DEF BulkAnswered
<1>2. ASSUME Fail, left' \in Nat PROVE IInv'
  <2>1. TypeOK'
    BY <1>1, <1>2, ReadReply, FailType DEF IInv, TypeOK
  <2>. QED
    BY <1>1, <1>2, <2>1, FailStep
<1>3. CASE Nap
  BY <1>1, <1>2, <1>3, NapCases, WaitOn
<1>4. CASE Fail /\ UNCHANGED left
  BY <1>2, <1>4 DEF IInv, TypeOK
<1>. QED
  BY <1>1, <1>3, <1>4, BulkCases, BulkConfirmed

\* A download begins with the device idle and with no block counted.
LEMMA SendDownloadStep == IInv /\ SendDownload => IInv'
<1>. SUFFICES ASSUME IInv, SendDownload PROVE IInv'
  OBVIOUS
<1>1. cmd = "download" /\ work = <<>> /\ UNCHANGED <<verify, wipe, left, work, replies, flash>>
  BY DEF SendDownload
<1>2. CASE Continue("block") /\ seq' = 0 /\ retry' = 0 /\ received' = {}
           /\ UNCHANGED <<part, faults>>
  <2>. USE DEF IInv, Continue
  <2>0. 0 \in Seqs /\ 0 \in 0 .. ResendTimes
    BY DEF Seqs
  <2>1. TypeOK' /\ OrderInv' /\ ReceivedInv'
    BY <1>1, <1>2, <2>0 DEF TypeOK, OrderInv, ReceivedInv
  <2>2. WorkInv'
    BY <1>1, <1>2 DEF WorkInv
  <2>3. SuccessInv'
    BY <1>1, <1>2 DEF SuccessInv, BulkCmds
  <2>4. TurnInv'
    BY <1>1, <1>2, FlashKept DEF TurnInv
  <2>. QED
    BY <1>1, <1>2, <2>1, <2>2, <2>3, <2>4, FlashKept
<1>3. CASE Fault /\ Fail /\ UNCHANGED received
  <2>1. TypeOK'
    BY <1>1, <1>3, FaultType, FailType DEF IInv, TypeOK
  <2>. QED
    BY <1>1, <1>3, <2>1, FailStep
<1>. QED
  BY <1>2, <1>3 DEF SendDownload

\* A block, whole or cut short, is one more job of the item at hand, and no
\* command is among the jobs before it.
LEMMA BlockSent ==
  ASSUME IInv, cmd = "block", ~waiting, NEW op \in {"block", "short"},
         work' = Append(work, [op |-> op, part |-> part, seq |-> seq]),
         cmd' \in {"block", "failed"}, UNCHANGED <<verify, part, flash>>
  PROVE work' \in Seq(Jobs) /\ WorkInv'
<1>1. PICK job \in Jobs : job = [op |-> op, part |-> part, seq |-> seq]
  BY DEF Jobs, IInv, TypeOK
<1>2. /\ work' \in Seq(Jobs) /\ Len(work) \in Nat /\ Len(work') = Len(work) + 1
      /\ \A i \in 1 .. Len(work) : work'[i] = work[i]
      /\ work'[Len(work) + 1] = job
  BY <1>1, AddNewest DEF IInv, TypeOK
<1>3. job.op = op /\ job.part = part /\ op \notin BulkCmds /\ cmd \notin BulkCmds
  BY <1>1 DEF BulkCmds
<1>4. part \in Parts
  BY DEF IInv, OrderInv
<1>5. ASSUME NEW i \in 1 .. Len(work')
      PROVE work'[i].part = part /\ work'[i].op \notin BulkCmds
  BY <1>2, <1>3 DEF IInv, WorkInv
<1>6. "disk_initial" \in BulkCmds /\ "verify" \in BulkCmds
  BY DEF BulkCmds
<1>. QED
  BY <1>2, <1>4, <1>5, <1>6 DEF WorkInv

\* In a download nothing is left to confirm.
LEMMA BlockUnconfirmed ==
  ASSUME IInv, cmd = "block"
  PROVE \A i \in 1 .. Len(replies) : replies[i] # "success"
BY DEF IInv, SuccessInv, BulkCmds

\* A block is sent once the one before it is settled.
LEMMA SendBlockStep == IInv /\ SendBlock => IInv'
<1>. SUFFICES ASSUME IInv, SendBlock PROVE IInv'
  OBVIOUS
<1>. USE DEF IInv, SendBlock
<1>1. work' \in Seq(Jobs) /\ WorkInv'
  BY BlockSent
<1>2. TypeOK' /\ OrderInv' /\ ReceivedInv'
  BY <1>1, PatienceType DEF TypeOK, OrderInv, ReceivedInv
<1>3. SuccessInv'
  BY BlockUnconfirmed DEF SuccessInv
<1>4. TurnInv'
  BY FlashKept DEF TurnInv
<1>. QED
  BY <1>1, <1>2, <1>3, <1>4, FlashKept

\* Sending a block again stays within the limit, or ends the burn.
LEMMA ResendCases ==
  ASSUME IInv, Resend
  PROVE /\ UNCHANGED <<part, seq>> /\ waiting' = FALSE
        /\ retry' \in 0 .. ResendTimes
        /\ cmd' \in {cmd, "failed"}
BY DEF Resend, Fail, Exhausted, IInv, TypeOK

\* A block cut short is one more job and one more attempt.
LEMMA SendShortStep == IInv /\ SendShortBlock => IInv'
<1>. SUFFICES ASSUME IInv, SendShortBlock PROVE IInv'
  OBVIOUS
<1>. USE DEF IInv, SendShortBlock
<1>1. UNCHANGED <<part, seq>> /\ waiting' = FALSE /\ retry' \in 0 .. ResendTimes
      /\ cmd' \in {"block", "failed"}
  BY ResendCases
<1>2. work' \in Seq(Jobs) /\ WorkInv'
  BY <1>1, BlockSent
<1>3. TypeOK'
  BY <1>1, <1>2, FaultType DEF TypeOK, Ended
<1>4. OrderInv' /\ ReceivedInv'
  BY <1>1 DEF OrderInv, ReceivedInv
<1>5. SuccessInv'
  BY BlockUnconfirmed DEF SuccessInv
<1>6. TurnInv'
  BY <1>1, FlashKept DEF TurnInv
<1>. QED
  BY <1>1, <1>2, <1>3, <1>4, <1>5, <1>6, FlashKept

\* An answer to a block is waited out, carries the burn to the next block or to
\* get_status, or has the block sent again.
LEMMA BlockAnsweredStep == IInv /\ BlockAnswered => IInv'
<1>. SUFFICES ASSUME IInv, BlockAnswered PROVE IInv'
  OBVIOUS
<1>1. cmd = "block" /\ Read /\ UNCHANGED <<verify, wipe, work, flash, received, faults>>
  BY DEF BlockAnswered
<1>2. ASSUME UNCHANGED part, waiting' = FALSE, seq' \in Seqs, retry' \in 0 .. ResendTimes,
             left' \in Nat, cmd' \in {"block", "get_status", "failed"}
      PROVE IInv'
  <2>. USE DEF IInv
  <2>1. TypeOK' /\ OrderInv' /\ ReceivedInv'
    BY <1>1, <1>2, ReadReply DEF TypeOK, OrderInv, ReceivedInv, BulkCmds, Ended
  <2>2. WorkInv'
    BY <1>1, <1>2, FlashKept DEF WorkInv, BulkCmds
  <2>3. SuccessInv'
    BY <1>1, <1>2, ReadReply DEF SuccessInv, BulkCmds
  <2>4. TurnInv'
    BY <1>1, <1>2, FlashKept DEF TurnInv
  <2>. QED
    BY <1>1, <1>2, <2>1, <2>2, <2>3, <2>4, FlashKept
<1>3. CASE NextBlock /\ retry' = 0 /\ UNCHANGED <<part, left>>
  <2>1. waiting' = FALSE /\ cmd' \in {"block", "get_status"} /\ seq' \in Seqs
    BY <1>3 DEF NextBlock, Continue, Seqs, IInv, TypeOK
  <2>2. 0 \in 0 .. ResendTimes /\ left' \in Nat
    BY <1>3 DEF IInv, TypeOK
  <2>. QED
    BY <1>2, <1>3, <2>1, <2>2
<1>4. CASE Resend /\ UNCHANGED left
  BY <1>1, <1>2, <1>4, ResendCases DEF IInv, TypeOK
<1>5. CASE Nap
  <2>1. CASE Fail
    BY <1>2, <1>5, <2>1, NapCases DEF Fail, IInv, TypeOK
  <2>. QED
    BY <1>1, <1>5, <2>1, NapCases, WaitOn
<1>. QED
  BY <1>3, <1>4, <1>5, BlockCases

\* A read that is repeated costs time alone.
LEMMA ReadFailsStep == IInv /\ ReadFails => IInv'
<1>. SUFFICES ASSUME IInv, ReadFails PROVE IInv'
  OBVIOUS
<1>1. UNCHANGED <<verify, wipe, cmd, waiting, part, seq, retry, work, replies, flash, received>>
  BY DEF ReadFails, devVars
<1>2. left' \in Nat
  BY DEF ReadFails, IInv, TypeOK
<1>3. TypeOK'
  BY <1>1, <1>2, FaultType DEF ReadFails, IInv, TypeOK
<1>4. OrderInv' /\ ReceivedInv'
  BY <1>1 DEF IInv, OrderInv, ReceivedInv
<1>5. WorkInv' /\ SuccessInv' /\ TurnInv'
  BY <1>1, FlashKept DEF IInv, WorkInv, SuccessInv, TurnInv
<1>. QED
  BY <1>1, <1>3, <1>4, <1>5, FlashKept DEF IInv

\* A burn can be given up at any command.
LEMMA GiveUpStep == IInv /\ GiveUp => IInv'
<1>. SUFFICES ASSUME IInv, GiveUp PROVE IInv'
  OBVIOUS
<1>1. TypeOK'
  BY FaultType, FailType DEF GiveUp, devVars, IInv, TypeOK
<1>. QED
  BY <1>1, FailStep DEF GiveUp, devVars

----------------------------------------------------------------------------
(* One lemma per action of the device. *)

\* The device takes its oldest job and adds at most one answer.
LEMMA Handled ==
  ASSUME IInv, work # <<>>, work' = Tail(work), UNCHANGED part
  PROVE /\ work' \in Seq(Jobs) /\ Job = work[1] /\ Job \in Jobs /\ Job.part = part
        /\ 1 \in 1 .. Len(work)
        /\ Job.op \in BulkCmds =>
              work' = <<>> /\ (cmd = "failed" \/ (waiting /\ cmd = Job.op))
        /\ \A i \in 1 .. Len(work') : \E j \in 2 .. Len(work) :
              work'[i] = work[j] /\ (j = Len(work) => i = Len(work'))
        /\ cmd # "failed" => \A i \in 1 .. Len(replies) : replies[i] # "success"
        /\ cmd # "done"
<1>1. work \in Seq(Jobs)
  BY DEF IInv, TypeOK
<1>2. /\ work' \in Seq(Jobs) /\ Job = work[1] /\ Job \in Jobs
      /\ Len(work) \in Nat \ {0} /\ Len(work') = Len(work) - 1
      /\ \A i \in 1 .. Len(work') : i + 1 \in 1 .. Len(work) /\ work'[i] = work[i + 1]
      /\ Len(work) = 1 => work' = <<>>
  BY <1>1, TakeOldest DEF Job
<1>3. 1 \in 1 .. Len(work)
  BY <1>2
<1>4. Job.part = part
      /\ (Job.op \in BulkCmds => 1 = Len(work) /\ (cmd = "failed" \/ (waiting /\ cmd = Job.op)))
  BY <1>2, <1>3 DEF IInv, WorkInv
<1>5. cmd # "failed" => \A i \in 1 .. Len(replies) : replies[i] # "success"
  BY DEF IInv, SuccessInv
<1>6. ASSUME NEW i \in 1 .. Len(work')
      PROVE \E j \in 2 .. Len(work) :
               work'[i] = work[j] /\ (j = Len(work) => i = Len(work'))
  <2>1. PICK n \in Nat \ {0} : n = Len(work) /\ Len(work') = n - 1
    BY <1>2
  <2>2. i + 1 \in 2 .. n /\ (i + 1 = n => i = n - 1)
    BY <2>1
  <2>3. work'[i] = work[i + 1]
    BY <1>2
  <2>. QED
    BY <2>1, <2>2, <2>3
<1>7. cmd # "done"
  BY DEF IInv, TurnInv
<1>. QED
  BY <1>2, <1>3, <1>4, <1>5, <1>6, <1>7

\* An answer other than "success" can wait behind any other.
LEMMA OtherAnswer ==
  ASSUME IInv, work # <<>>, NEW r \in Replies, r # "success", replies' = Append(replies, r),
         cmd' = cmd
  PROVE replies' \in Seq(Replies) /\ SuccessInv'
<1>1. /\ replies' \in Seq(Replies) /\ Len(replies) \in Nat /\ Len(replies') = Len(replies) + 1
      /\ \A i \in 1 .. Len(replies) : replies'[i] = replies[i]
      /\ replies'[Len(replies) + 1] = r
  BY AddNewest DEF IInv, TypeOK
<1>2. cmd # "failed" => \A i \in 1 .. Len(replies) : replies[i] # "success"
  BY DEF IInv, SuccessInv
<1>3. ASSUME cmd # "failed", NEW i \in 1 .. Len(replies')
      PROVE replies'[i] # "success"
  <2>1. i \in 1 .. Len(replies) \/ i = Len(replies) + 1
    BY <1>1
  <2>. QED
    BY <1>1, <1>2, <1>3, <2>1
<1>. QED
  BY <1>1, <1>3 DEF SuccessInv

\* What the jobs left say holds when one was handled that wrote to its item at
\* most.
LEMMA WorkLeft ==
  ASSUME IInv, work # <<>>, work' = Tail(work), UNCHANGED <<cmd, waiting, part>>
  PROVE WorkInv'
<1>1. ASSUME NEW i \in 1 .. Len(work')
      PROVE \E j \in 2 .. Len(work) :
               work'[i] = work[j] /\ (j = Len(work) => i = Len(work'))
  BY <1>1, Handled
<1>2. ASSUME NEW i \in 1 .. Len(work')
      PROVE /\ work'[i].part = part
            /\ work'[i].op \in BulkCmds =>
                  /\ i = Len(work')
                  /\ cmd = "failed" \/ (waiting /\ cmd = work'[i].op)
            /\ work'[i].op \notin BulkCmds =>
                  part \in Parts /\ cmd \in {"block", "get_status", "failed"}
            /\ work'[i].op # "disk_initial"
            /\ work'[i].op = "verify" => part \in Parts
  <2>1. PICK j \in 2 .. Len(work) : work'[i] = work[j] /\ (j = Len(work) => i = Len(work'))
    BY <1>1
  <2>2. j \in 1 .. Len(work) /\ j # 1
    OBVIOUS
  <2>. QED
    BY <2>1, <2>2 DEF IInv, WorkInv
<1>. QED
  BY <1>2 DEF WorkInv

\* A command is confirmed only if what it asserts is true; the erasure of
\* disk_initial meets a flash nothing was written to.
LEMMA DevBulkStep == IInv /\ DevBulk => IInv'
<1>. SUFFICES ASSUME IInv, DevBulk PROVE IInv'
  OBVIOUS
<1>1. /\ work # <<>> /\ Job.op \in BulkCmds
      /\ flash' = IF Job.op = "disk_initial" /\ wipe
                  THEN [p \in Parts |-> [s \in Seqs |-> "erased"]] ELSE flash
      /\ UNCHANGED <<verify, wipe, cmd, waiting, part, seq, retry, left, received, faults>>
  BY DEF DevBulk, hostVars
<1>2. PICK r \in {"success", "failed"} :
         /\ work' = Tail(work) /\ replies' = Append(replies, r)
         /\ r = "success" /\ Job.op = "get_status" => received = Seqs
         /\ r = "success" /\ Job.op = "verify" => Intact(Job.part)
  BY DevBulkCases DEF Answer
<1>3. /\ work' \in Seq(Jobs) /\ Job = work[1] /\ Job.part = part /\ work' = <<>>
      /\ 1 \in 1 .. Len(work)
      /\ cmd = "failed" \/ (waiting /\ cmd = Job.op)
      /\ cmd # "failed" => \A i \in 1 .. Len(replies) : replies[i] # "success"
  BY <1>1, <1>2, Handled
<1>4. Job.op = "disk_initial" => part = 1 /\ \A p \in Parts : Untouched(p)
  BY <1>3 DEF IInv, WorkInv
<1>5. /\ replies' \in Seq(Replies) /\ Len(replies) \in Nat /\ Len(replies') = Len(replies) + 1
      /\ \A i \in 1 .. Len(replies) : replies'[i] = replies[i]
      /\ replies'[Len(replies) + 1] = r
  BY <1>2, AddNewest DEF IInv, TypeOK, Replies
<1>6. TypeOK'
  <2>1. flash' \in [Parts -> [Seqs -> {"old", "erased", "good", "bad"}]]
    BY <1>1 DEF IInv, TypeOK
  <2>. QED
    BY <1>1, <1>3, <1>5, <2>1 DEF IInv, TypeOK
<1>7. OrderInv' /\ WorkInv'
  BY <1>1, <1>2, WorkLeft DEF IInv, OrderInv
<1>8. SuccessInv'
  <2>. SUFFICES ASSUME cmd # "failed", NEW i \in 1 .. Len(replies'), replies'[i] = "success"
       PROVE /\ i = Len(replies')
             /\ cmd = "get_status" => Written(part)'
             /\ cmd = "verify" => Intact(part)'
    BY <1>1, <1>3 DEF SuccessInv, Written, Intact
  <2>1. i = Len(replies') /\ r = "success"
    BY <1>3, <1>5
  <2>2. CASE cmd = "get_status"
    <3>1. received = Seqs /\ flash' = flash
      BY <1>1, <1>2, <1>3, <2>1, <2>2
    <3>. QED
      BY <1>1, <2>1, <2>2, <3>1 DEF IInv, ReceivedInv, Written
  <2>3. CASE cmd = "verify"
    <3>1. Intact(part) /\ flash' = flash
      BY <1>1, <1>2, <1>3, <2>1, <2>3
    <3>. QED
      BY <1>1, <2>1, <2>3, <3>1 DEF Intact
  <2>. QED
    BY <2>1, <2>2, <2>3
<1>9. CASE flash' = flash
  <2>1. ReceivedInv' /\ TurnInv'
    BY <1>1, <1>3, <1>9, FlashKept DEF IInv, ReceivedInv, TurnInv
  <2>. QED
    BY <1>1, <1>6, <1>7, <1>8, <1>9, <2>1, FlashKept DEF IInv
<1>10. CASE Job.op = "disk_initial" /\ wipe
  <2>1. part = 1 /\ part' = 1 /\ cmd' \in {"disk_initial", "failed"} /\ (waiting' \/ cmd' = "failed")
    BY <1>1, <1>3, <1>4, <1>10
  <2>2. \A p \in 2 .. NumParts : Erased(p)'
    BY <1>1, <1>10 DEF Erased, Parts
  <2>3. ReceivedInv' /\ TurnInv'
    BY <2>1, <2>2 DEF ReceivedInv, TurnInv
  <2>4. PassedWritten' /\ VerifiedIntact'
    BY <2>1 DEF PassedWritten, VerifiedIntact
  <2>. QED
    BY <1>6, <1>7, <1>8, <2>3, <2>4 DEF IInv
<1>. QED
  BY <1>1, <1>9, <1>10

\* A block is stored in the item at hand.
LEMMA DevBlockStep == IInv /\ DevBlock => IInv'
<1>. SUFFICES ASSUME IInv, DevBlock PROVE IInv'
  OBVIOUS
<1>1. /\ work # <<>> /\ Job.op = "block" /\ work' = Tail(work)
      /\ UNCHANGED <<verify, wipe, cmd, waiting, part, seq, retry, left>>
      /\ faults' \in 0 .. MaxFaults
  BY FaultType DEF DevBlock, Answer, hostVars, IInv, TypeOK
<1>2. PICK r \in {"OK!!", "ERR"} : replies' = Append(replies, r)
  BY DEF DevBlock, Answer
<1>3. \/ UNCHANGED <<flash, received>>
      \/ /\ \E c \in {"good", "bad"} : flash' = [flash EXCEPT ![Job.part][Job.seq] = c]
         /\ received' = received \cup {Job.seq}
  BY DEF DevBlock
<1>4. replies' \in Seq(Replies) /\ SuccessInv'
  BY <1>1, <1>2, OtherAnswer DEF Replies
<1>5. work' \in Seq(Jobs) /\ Job \in Jobs /\ Job.part = part /\ Job = work[1] /\ 1 \in 1 .. Len(work)
  BY <1>1, Handled
<1>6. part \in Parts /\ cmd \in {"block", "get_status", "failed"} /\ Job.seq \in Seqs
  BY <1>1, <1>5 DEF IInv, WorkInv, BulkCmds, Jobs
<1>7. WorkInv' /\ OrderInv'
  BY <1>1, WorkLeft DEF IInv, OrderInv
<1>8. CASE UNCHANGED <<flash, received>>
  <2>1. TypeOK' /\ ReceivedInv' /\ TurnInv'
    BY <1>1, <1>4, <1>5, <1>6, <1>8, FlashKept DEF IInv, TypeOK, ReceivedInv, TurnInv
  <2>. QED
    BY <1>1, <1>4, <1>7, <1>8, <2>1, FlashKept DEF IInv
<1>9. ASSUME NEW c \in {"good", "bad"}, flash' = [flash EXCEPT ![Job.part][Job.seq] = c],
             received' = received \cup {Job.seq}
      PROVE IInv'
  <2>1. /\ flash' \in [Parts -> [Seqs -> {"old", "erased", "good", "bad"}]]
        /\ \A p \in Parts : p # part => flash'[p] = flash[p]
        /\ flash'[part][Job.seq] = c
        /\ \A s \in Seqs : s # Job.seq => flash'[part][s] = flash[part][s]
    BY <1>5, <1>6, <1>9 DEF IInv, TypeOK
  <2>2. TypeOK'
    BY <1>1, <1>4, <1>5, <1>6, <1>9, <2>1 DEF IInv, TypeOK
  <2>3. ReceivedInv'
    BY <1>1, <1>9, <2>1, <2>2 DEF IInv, ReceivedInv, TypeOK
  <2>4. TurnInv'
    <3>1. \A p \in part + 1 .. NumParts : flash'[p] = flash[p]
      BY <1>6, <2>1 DEF Parts
    <3>. QED
      BY <1>1, <1>6, <3>1 DEF IInv, TurnInv, Untouched, Erased
  <2>5. PassedWritten' /\ VerifiedIntact'
    <3>1. \A p \in 1 .. part - 1 : flash'[p] = flash[p]
      BY <1>6, <2>1 DEF Parts
    <3>. QED
      BY <1>1, <3>1 DEF IInv, PassedWritten, VerifiedIntact, Written, Intact
  <2>. QED
    BY <1>4, <1>7, <2>2, <2>3, <2>4, <2>5 DEF IInv
<1>. QED
  BY <1>3, <1>8, <1>9

\* A short block stores nothing.
LEMMA DevShortStep == IInv /\ DevShort => IInv'
<1>. SUFFICES ASSUME IInv, DevShort PROVE IInv'
  OBVIOUS
<1>1. /\ work # <<>> /\ work' = Tail(work) /\ Job.op = "short"
      /\ UNCHANGED <<verify, wipe, cmd, waiting, part, seq, retry, left, flash, received, faults>>
      /\ replies' = Append(replies, "ERR") \/ replies' = replies
  BY DEF DevShort, Answer, hostVars
<1>2. replies' \in Seq(Replies) /\ SuccessInv'
  <2>1. CASE replies' = Append(replies, "ERR")
    BY <1>1, <2>1, OtherAnswer DEF Replies
  <2>2. CASE replies' = replies
    BY <1>1, <2>2 DEF IInv, TypeOK, SuccessInv
  <2>. QED
    BY <1>1, <2>1, <2>2
<1>3. work' \in Seq(Jobs) /\ WorkInv'
  BY <1>1, Handled, WorkLeft
<1>4. cmd \in {"block", "get_status", "failed"}
  BY <1>1, Handled DEF IInv, WorkInv, BulkCmds
<1>5. TypeOK' /\ OrderInv' /\ ReceivedInv' /\ TurnInv'
  BY <1>1, <1>2, <1>3, <1>4, FlashKept DEF IInv, TypeOK, OrderInv, ReceivedInv, TurnInv
<1>. QED
  BY <1>1, <1>2, <1>3, <1>5, FlashKept DEF IInv

\* Asking for patience confirms nothing.
LEMMA DevBusyStep == IInv /\ DevBusy => IInv'
<1>. SUFFICES ASSUME IInv, DevBusy PROVE IInv'
  OBVIOUS
<1>1. /\ work # <<>>
      /\ UNCHANGED <<verify, wipe, cmd, waiting, part, seq, retry, left, work, flash, received, faults>>
  BY DEF DevBusy, hostVars
<1>2. PICK r \in {"Continue:32", "Continue:34"} : replies' = Append(replies, r)
  <2>1. \A e : <<e>> = Append(<<>>, e)
    OBVIOUS
  <2>. QED
    BY <2>1 DEF DevBusy
<1>3. replies' \in Seq(Replies) /\ SuccessInv'
  BY <1>1, <1>2, OtherAnswer DEF Replies
<1>4. TypeOK' /\ OrderInv' /\ WorkInv'
  BY <1>1, <1>3, FlashKept DEF IInv, TypeOK, OrderInv, WorkInv
<1>5. ReceivedInv' /\ TurnInv'
  BY <1>1, FlashKept DEF IInv, ReceivedInv, TurnInv
<1>. QED
  BY <1>1, <1>3, <1>4, <1>5, FlashKept DEF IInv

\* A step that changes nothing keeps the invariant.
LEMMA StutterStep == IInv /\ UNCHANGED vars => IInv'
<1>. SUFFICES ASSUME IInv, UNCHANGED vars PROVE IInv'
  OBVIOUS
<1>1. UNCHANGED <<verify, wipe, cmd, waiting, part, seq, retry, left, work, replies, flash,
                  received, faults>>
  BY DEF vars, hostVars, devVars
<1>2. TypeOK' /\ OrderInv' /\ ReceivedInv'
  BY <1>1 DEF IInv, TypeOK, OrderInv, ReceivedInv
<1>3. WorkInv' /\ SuccessInv' /\ TurnInv'
  BY <1>1, FlashKept DEF IInv, WorkInv, SuccessInv, TurnInv
<1>. QED
  BY <1>1, <1>2, <1>3, FlashKept DEF IInv

----------------------------------------------------------------------------
(* The theorems. *)

\* Jobs, answers and the flash stay in step with the command the host is at.
THEOREM Invariance == Spec => []IInv
<1>1. IInv /\ [Next]_vars => IInv'
  BY SendBulkStep, BulkAnsweredStep, SendDownloadStep, SendBlockStep, SendShortStep,
     BlockAnsweredStep, ReadFailsStep, GiveUpStep, DevBulkStep, DevBlockStep, DevShortStep, DevBusyStep,
     StutterStep DEF Next, HostNext, DevWork
<1>. QED
  BY InitIInv, <1>1, PTL DEF Spec

\* Every variable of the U-Boot phase stays in its type, and no block is resent
\* more often than resend_times allows.
THEOREM TypeCorrect == Spec => []TypeOK
<1>1. IInv => TypeOK
  BY DEF IInv
<1>. QED
  BY Invariance, <1>1, PTL

\* Whatever acknowledgement _try_write_media takes for that of another block,
\* no partition is passed with a block missing.
THEOREM AlwaysWritten == Spec => []PassedWritten
<1>1. IInv => PassedWritten
  BY DEF IInv
<1>. QED
  BY Invariance, <1>1, PTL

\* A partition with a VERIFY item that was passed holds its image.
THEOREM VerifiedAlwaysIntact == Spec => []VerifiedIntact
<1>1. IInv => VerifiedIntact
  BY DEF IInv
<1>. QED
  BY Invariance, <1>1, PTL

----------------------------------------------------------------------------
(* The contract of a burn. *)

\* Contents depend on the flash and on the items to verify alone.
LEMMA ContentKept ==
  ASSUME UNCHANGED <<verify, flash>>
  PROVE \A p \in Parts : ContentOf(p)' = ContentOf(p)
BY DEF ContentOf, Untouched, Erased, Imaged, Intact, Written

\* An item that was passed holds its image, one whose turn is still to come
\* nothing.
LEMMA ContentByTurn ==
  ASSUME IInv
  PROVE /\ \A p \in Parts : p < part => ContentOf(p) = "image"
        /\ \A p \in Parts : p > part => ContentOf(p) \in {"old", "erased"}
<1>1. ASSUME NEW p \in Parts, p < part PROVE ContentOf(p) = "image"
  <2>1. p \in 1 .. part - 1 /\ 0 \in Seqs
    BY <1>1 DEF IInv, TypeOK, Parts, Seqs
  <2>2. Written(p) /\ (p \in verify => Intact(p))
    BY <2>1 DEF IInv, PassedWritten, VerifiedIntact
  <2>3. ~Untouched(p) /\ ~Erased(p)
    BY <2>1, <2>2 DEF Written, Untouched, Erased
  <2>. QED
    BY <2>2, <2>3 DEF ContentOf, Imaged
<1>2. ASSUME NEW p \in Parts, p > part PROVE ContentOf(p) \in {"old", "erased"}
  <2>1. p \in part + 1 .. NumParts
    BY <1>2 DEF IInv, TypeOK, Parts
  <2>. QED
    BY <2>1 DEF IInv, TurnInv, ContentOf
<1>. QED
  BY <1>1, <1>2

\* The burn begins as the contract does.
LEMMA ContractInit == Init => Contract!Init
<1>. SUFFICES ASSUME Init PROVE Contract!Init
  OBVIOUS
<1>1. \A p \in Parts : ContentOf(p) = "old"
  BY DEF Init, ContentOf, Untouched
<1>2. cmd \notin Ended
  BY DEF Init, Ended
<1>. QED
  BY <1>1, <1>2 DEF Contract!Init, Contract!Parts, Parts

\* The host writes nothing; it ends a burn only once, and in success only with
\* every item passed.
LEMMA HostKeepsContract ==
  ASSUME IInv, IInv', HostNext
  PROVE [Contract!Next]_(Contract!vars)
<1>1. UNCHANGED <<verify, flash>> /\ cmd \notin Ended
  <2>1. CASE ReadFails
    BY <2>1 DEF ReadFails, devVars, Ended, IInv, OrderInv, BulkCmds
  <2>2. CASE BulkAnswered \/ BlockAnswered
    BY <2>2 DEF BulkAnswered, BlockAnswered, BulkCmds, Ended
  <2>. QED
    BY <2>1, <2>2 DEF HostNext, SendBulk, SendDownload, SendBlock, SendShortBlock,
         GiveUp, devVars, BulkCmds, Ended
<1>2. \A p \in Parts : ContentOf(p)' = ContentOf(p)
  BY <1>1, ContentKept
<1>3. CASE cmd' \notin Ended
  BY <1>1, <1>2, <1>3 DEF Contract!vars
<1>4. CASE cmd' = "failed"
  BY <1>1, <1>2, <1>4 DEF Contract!Next, Contract!GiveUp, Ended
<1>5. CASE cmd' = "done"
  <2>1. part' = NumParts + 1
    BY <1>5 DEF IInv, OrderInv
  <2>2. (\A p \in Parts : p < part => ContentOf(p) = "image")'
    BY ContentByTurn, PTL
  <2>3. \A p \in Parts : ContentOf(p) = "image"
    BY <1>2, <2>1, <2>2 DEF Parts
  <2>. QED
    BY <1>1, <1>2, <1>5, <2>3 DEF Contract!Next, Contract!Succeed, Contract!Parts, Parts, Ended
<1>. QED
  BY <1>3, <1>4, <1>5 DEF Ended

\* The device erases what nothing was written to, and writes the item at hand.
LEMMA DevKeepsContract ==
  ASSUME IInv, DevWork \/ DevBusy
  PROVE [Contract!Next]_(Contract!vars)
<1>1. work # <<>> /\ cmd' = cmd /\ cmd # "done" /\ verify' = verify
  BY DEF DevWork, DevBulk, DevBlock, DevShort, DevBusy, hostVars, IInv, TurnInv
<1>2. CASE flash' = flash
  <2>1. \A p \in Parts : ContentOf(p)' = ContentOf(p)
    BY <1>1, <1>2, ContentKept
  <2>. QED
    BY <1>1, <2>1 DEF Contract!vars
<1>3. CASE DevBulk /\ flash' # flash
  <2>1. Job.op = "disk_initial" /\ flash' = [p \in Parts |-> [s \in Seqs |-> "erased"]]
    BY <1>3 DEF DevBulk
  <2>2. Job = work[1] /\ 1 \in 1 .. Len(work)
    <3>1. work \in Seq(Jobs)
      BY DEF IInv, TypeOK
    <3>2. Len(work) \in Nat \ {0}
      BY <1>1, <3>1, TakeOldest
    <3>. QED
      BY <1>1, <3>1, <3>2, TakeOldest DEF Job
  <2>3. \A p \in Parts : ContentOf(p) = "old"
    BY <2>1, <2>2 DEF IInv, WorkInv, ContentOf
  <2>4. \A p \in Parts : ContentOf(p)' = "erased"
    <3>1. 0 \in Seqs
      BY DEF Seqs
    <3>2. \A p \in Parts : Erased(p)' /\ ~Untouched(p)'
      BY <2>1, <3>1 DEF Erased, Untouched
    <3>. QED
      BY <3>2 DEF ContentOf
  <2>. QED
    BY <1>1, <2>3, <2>4 DEF Contract!Next, Contract!Erase, Contract!Parts, Parts, Ended
<1>4. ASSUME DevBlock, flash' # flash PROVE Contract!Next
  <2>1. PICK c \in {"good", "bad"} : flash' = [flash EXCEPT ![Job.part][Job.seq] = c]
    BY <1>4 DEF DevBlock
  <2>2. Job \in Jobs /\ Job.op = "block"
    <3>1. work \in Seq(Jobs)
      BY DEF IInv, TypeOK
    <3>. QED
      BY <1>1, <1>4, <3>1, TakeOldest DEF Job, DevBlock
  <2>3. Job = work[1] /\ 1 \in 1 .. Len(work)
    <3>1. work \in Seq(Jobs)
      BY DEF IInv, TypeOK
    <3>2. Len(work) \in Nat \ {0}
      BY <1>1, <3>1, TakeOldest
    <3>. QED
      BY <1>1, <3>1, <3>2, TakeOldest DEF Job
  <2>4. Job.part = part /\ part \in Parts /\ Job.seq \in Seqs
    BY <2>2, <2>3 DEF IInv, WorkInv, BulkCmds, Jobs
  <2>5. /\ \A p \in Parts : p # part => flash'[p] = flash[p]
        /\ flash'[part][Job.seq] = c
    BY <2>1, <2>4 DEF IInv, TypeOK
  <2>6. \A p \in Parts : p # part => ContentOf(p)' = ContentOf(p)
    BY <1>1, <2>5 DEF ContentOf, Untouched, Erased, Imaged, Intact, Written
  <2>7. PICK d \in {"partial", "image"} :
           d = IF (IF part \in verify THEN \A s \in Seqs : flash'[part][s] = "good"
                   ELSE \A s \in Seqs : flash'[part][s] \in {"good", "bad"})
               THEN "image" ELSE "partial"
    OBVIOUS
  <2>8. \A p \in Parts : p = part => ContentOf(p)' = d
    <3>1. ~(\A s \in Seqs : flash'[part][s] = "old") /\ ~(\A s \in Seqs : flash'[part][s] = "erased")
      BY <2>4, <2>5
    <3>. QED
      BY <1>1, <2>7, <3>1 DEF ContentOf, Untouched, Erased, Imaged, Intact, Written
  <2>9. Contract!Write(part)
    <3>1. \A q \in 1 .. part - 1 : q \in Parts /\ ContentOf(q) = "image"
      BY <2>4, ContentByTurn DEF Parts
    <3>2. \A q \in part + 1 .. NumParts : q \in Parts /\ ContentOf(q) \in {"old", "erased"}
      BY <2>4, ContentByTurn DEF Parts
    <3>3. [p \in Parts |-> ContentOf(p)]'
            = [[p \in Parts |-> ContentOf(p)] EXCEPT ![part] = d]
      BY <2>4, <2>6, <2>8
    <3>. QED
      BY <1>1, <3>1, <3>2, <3>3 DEF Contract!Write, Ended
  <2>. QED
    BY <2>4, <2>9 DEF Contract!Next, Contract!Parts, Parts
<1>. QED
  BY <1>2, <1>3, <1>4 DEF DevWork, DevShort, DevBusy

\* The Optimus burn keeps the contract of a burn: every step erases or writes
\* the storage as the contract allows, ends the burn as it allows, or changes
\* nothing the contract sees.
THEOREM RefinesContract == Spec => MediaKeepsContract
<1>1. IInv /\ IInv' /\ [Next]_vars => [Contract!Next]_(Contract!vars)
  <2>. SUFFICES ASSUME IInv, IInv', [Next]_vars PROVE [Contract!Next]_(Contract!vars)
    OBVIOUS
  <2>1. CASE UNCHANGED vars
    <3>1. UNCHANGED <<verify, flash, cmd>>
      BY <2>1 DEF vars, hostVars, devVars
    <3>2. \A p \in Parts : ContentOf(p)' = ContentOf(p)
      BY <3>1, ContentKept
    <3>. QED
      BY <3>1, <3>2 DEF Contract!vars
  <2>. QED
    BY <2>1, HostKeepsContract, DevKeepsContract DEF Next
<1>. QED
  BY ContractInit, Invariance, <1>1, PTL DEF Spec, MediaKeepsContract, Contract!Spec
=============================================================================
