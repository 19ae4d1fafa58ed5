------------------------------ MODULE AmlcBoot ------------------------------
(***************************************************************************)
(* The AMLC boot of G12 boards: BL2 asks for pieces of the image, the host *)
(* (_download_amlc_data of optimus.py, the loop of boot-g12.py) sends each *)
(* by writeAMLCData of pyamlboot.py and closes it with a checksum (AMLS).  *)
(* There is no message for the end: the host stops when BL2 repeats the    *)
(* request it made last.                                                   *)
(*                                                                         *)
(* Lengths and offsets are in bytes.  Byte u of the image is the number u, *)
(* and the additive checksum of some data the set of its bytes: it sees    *)
(* even less of their places than the sum of words in the code.            *)
(***************************************************************************)
EXTENDS Integers, Blocks

CONSTANTS
    BlockLength,    \* AMLC_MAX_BLOCK_LENGTH
    MaxTransfer,    \* AMLC_MAX_TRANSFERT_LENGTH, what wIndex can count
    AmlsBlock,      \* AMLC_AMLS_BLOCK_LENGTH, the unit of wValue
    SeqLimit,       \* values of the byte that carries seq, 256 in the code
    MaxRequest,     \* longest piece BL2 asks for
    BootLength,     \* what BL2 wants of the image
    ImageLengths,
    MaxFaults       \* bound on transfers that fail and data that is refused

ASSUME AmlcAssumption ==
    /\ BlockLength \in Nat \ {0} /\ MaxTransfer \in Nat \ {0}
    /\ AmlsBlock \in Nat \ {0} /\ MaxTransfer % AmlsBlock = 0
    /\ SeqLimit \in Nat /\ MaxRequest \in Nat \ {0}
    /\ BootLength \in Nat \ {0} /\ ImageLengths \subseteq Nat
    /\ MaxFaults \in Nat

VARIABLES
    tool,           \* "ubt" or "boot-g12"
    imageLength,
    pc,
    seq,
    prev,           \* prev_length, prev_offset
    length,         \* of the data read for the request
    transferCount,
    offset,         \* of the current transfer in the data
    sent,           \* of the current transfer
    blockCount,
    request,        \* BL2: the piece it asked for last
    refused,        \* BL2: it could not use that piece
    dpos, dleft,    \* BL2: place of the next byte, bytes still expected
    piece,          \* BL2: <<place in the piece, byte>> received
    ram,            \* BL2: <<place in the image, byte>> accepted
    faults

hostVars == <<pc, seq, prev, length, transferCount, offset, sent, blockCount>>
devVars == <<request, refused, dpos, dleft, piece, ram>>
vars == <<tool, imageLength, hostVars, devVars, faults>>

Ended == {"done", "failed"}
NoRequest == [length |-> -1, offset |-> -1]

Init ==
    /\ tool \in {"ubt", "boot-g12"}
    /\ imageLength \in ImageLengths
    /\ pc = "get"
    /\ seq = 0
    /\ prev = NoRequest
    /\ length = 0 /\ transferCount = 0 /\ offset = 0 /\ sent = 0 /\ blockCount = 0
    /\ request = NoRequest
    /\ refused = FALSE
    /\ dpos = 0 /\ dleft = 0
    /\ piece = {} /\ ram = {}
    /\ faults = 0

Fault == faults < MaxFaults /\ faults' = faults + 1

Places(r) == r.offset .. r.offset + r.length - 1
Missing == {u \in 0 .. BootLength - 1 : \A x \in ram : x[1] # u}

\* BL2 asks again for what it could not use, and repeats itself at the end.
Requests ==
    IF refused \/ Missing = {} THEN {request}
    ELSE {r \in [length : 1 .. MaxRequest, offset : Missing] :
              Places(r) \subseteq Missing}

----------------------------------------------------------------------------

\* Mutant of Repeated: the length alone is compared.
RepeatedLength(r) == r.length = prev.length

\* The host takes a repeated request for the end.
Repeated(r) == r = prev

\* getBootAMLC: the request is read and acknowledged.
GetBootAMLC ==
    /\ pc = "get"
    /\ \E r \in Requests :
          /\ request' = r
          /\ prev' = r
          /\ pc' = IF Repeated(r) THEN "done" ELSE "read"
    /\ piece' = {}
    /\ UNCHANGED <<tool, imageLength, seq, length, transferCount, offset, sent,
                   blockCount, refused, dpos, dleft, ram, faults>>

\* What seek and read, or a slice, leave of the request at the image's end.
ReadLength ==
    IF prev.offset >= imageLength THEN 0
    ELSE IF prev.offset + prev.length > imageLength THEN imageLength - prev.offset
    ELSE prev.length

\* Mutant of ReadStart: the image is read from its start.
NotSought == 0

\* First byte of the data.
ReadStart == prev.offset

\* Only the Optimus burn refuses an empty read.
ReadImage ==
    /\ pc = "read"
    /\ length' = ReadLength
    /\ transferCount' = CeilDiv(ReadLength, MaxTransfer)
    /\ offset' = 0
    /\ pc' = IF tool = "ubt" /\ ReadLength = 0 THEN "failed" ELSE "transfer"
    /\ UNCHANGED <<tool, imageLength, seq, prev, sent, blockCount, devVars, faults>>

\* Mutant of WriteLength: the last transfer is not cut.
FullTransfer == MaxTransfer

WriteLength ==
    IF offset + MaxTransfer > length THEN length - offset ELSE MaxTransfer

\* wIndex holds the length minus one.
CountField(n) == (n - 1) % MaxTransfer

\* wValue holds the place of the transfer in the data, in blocks.
PlaceField == offset \div AmlsBlock

\* _writeAMLCData up to its control transfer.
StartTransfer ==
    /\ pc = "transfer" /\ transferCount > 0
    /\ sent' = 0
    /\ blockCount' = CeilDiv(WriteLength, BlockLength)
    /\ dpos' = PlaceField * AmlsBlock
    /\ dleft' = CountField(WriteLength) + 1
    /\ pc' = "block"
    /\ UNCHANGED <<tool, imageLength, seq, prev, length, transferCount, offset,
                   request, refused, piece, ram, faults>>

\* Mutant of PacketLength: the last packet is not cut.
FullPacket == BlockLength

\* A packet is a full block or what remains of the transfer.
PacketLength ==
    IF WriteLength - sent > BlockLength THEN BlockLength ELSE WriteLength - sent

SendBlock ==
    /\ pc = "block" /\ blockCount > 0 /\ dleft >= PacketLength
    /\ piece' = piece \cup {<<dpos + k, ReadStart + offset + sent + k>> :
                                k \in 0 .. PacketLength - 1}
    /\ sent' = sent + PacketLength
    /\ blockCount' = blockCount - 1
    /\ dpos' = dpos + PacketLength
    /\ dleft' = dleft - PacketLength
    /\ UNCHANGED <<tool, imageLength, pc, seq, prev, length, transferCount, offset,
                   request, refused, ram, faults>>

\* BL2 acknowledges a transfer that is complete.
Acknowledged ==
    /\ pc = "block" /\ blockCount = 0 /\ dleft = 0
    /\ offset' = offset + WriteLength
    /\ transferCount' = transferCount - 1
    /\ pc' = "transfer"
    /\ UNCHANGED <<tool, imageLength, seq, prev, length, sent, blockCount, devVars,
                   faults>>

Bytes(pairs) == {x[2] : x \in pairs}

\* _amlsChecksum unpacks a single byte at the end of the data from the number
\* data[offset], which raises.
SumRaises == length % 4 = 1

\* The checksum of the data that was read.
DataSum == {ReadStart + k : k \in 0 .. length - 1}

\* BL2 has the whole piece and its checksum is right.
Usable ==
    /\ {x[1] : x \in piece} = 0 .. request.length - 1
    /\ Bytes(piece) = DataSum

\* The AMLS with the checksum: the sequence number has to fit its byte.  BL2
\* takes it for the end of the piece it asked for last.
SendAmls ==
    /\ pc = "transfer" /\ transferCount = 0
    /\ ~SumRaises
    /\ seq < SeqLimit
    /\ seq' = seq + 1
    /\ pc' = "get"
    /\ \/ /\ Usable
          /\ refused' = FALSE
          /\ ram' = ram \cup {<<request.offset + x[1], x[2]>> : x \in piece}
          /\ UNCHANGED faults
       \/ /\ IF Usable THEN Fault ELSE UNCHANGED faults
          /\ refused' = TRUE
          /\ UNCHANGED ram
    /\ UNCHANGED <<tool, imageLength, prev, length, transferCount, offset, sent,
                   blockCount, request, dpos, dleft, piece>>

\* The data was sent, but its checksum cannot be computed.
ChecksumRaises ==
    /\ pc = "transfer" /\ transferCount = 0
    /\ SumRaises
    /\ pc' = "failed"
    /\ UNCHANGED <<tool, imageLength, seq, prev, length, transferCount, offset,
                   sent, blockCount, devVars, faults>>

\* struct.error
SeqTooLarge ==
    /\ pc = "transfer" /\ transferCount = 0
    /\ ~SumRaises
    /\ seq >= SeqLimit
    /\ pc' = "failed"
    /\ UNCHANGED <<tool, imageLength, seq, prev, length, transferCount, offset,
                   sent, blockCount, devVars, faults>>

\* A transfer fails, times out or is not answered OKAY; a transfer always times
\* out when BL2 waits for another count.
UsbError ==
    /\ \/ pc \in {"get", "transfer", "block"} /\ Fault
       \/ /\ pc = "block"
          /\ IF blockCount > 0 THEN dleft < PacketLength ELSE dleft > 0
          /\ UNCHANGED faults
    /\ pc' = "failed"
    /\ UNCHANGED <<tool, imageLength, seq, prev, length, transferCount, offset,
                   sent, blockCount, devVars>>

Next ==
    \/ GetBootAMLC \/ ReadImage \/ StartTransfer \/ SendBlock \/ Acknowledged
    \/ SendAmls \/ ChecksumRaises \/ SeqTooLarge \/ UsbError

Spec == Init /\ [][Next]_vars

----------------------------------------------------------------------------

\* Every variable stays in its type.
TypeOK ==
    /\ tool \in {"ubt", "boot-g12"} /\ imageLength \in ImageLengths
    /\ pc \in Ended \cup {"get", "read", "transfer", "block"}
    /\ seq \in 0 .. SeqLimit
    /\ length \in 0 .. MaxRequest /\ offset \in 0 .. length
    /\ transferCount \in Nat /\ blockCount \in Nat
    /\ sent \in 0 .. MaxTransfer
    /\ dpos \in 0 .. MaxRequest /\ dleft \in 0 .. MaxTransfer
    /\ refused \in BOOLEAN /\ faults \in 0 .. MaxFaults

\* Every byte BL2 accepted is at its own place in memory, although the
\* checksum does not see places: splitting a piece into transfers and packets
\* never displaces one (writeAMLCData and _writeAMLCData).
InPlace == \A x \in ram : x[1] = x[2]

\* The end by repetition is the real end: a host that stops has given BL2
\* everything, unless BL2 repeated a request because it refused the data.
EndComplete == pc = "done" => refused \/ Missing = {}

\* Without faults, with an image that holds what BL2 wants, the boot fails only
\* when the sequence number no longer fits its byte, or when BL2 asked for a
\* piece whose length _amlsChecksum cannot sum: splitting a piece never leaves
\* BL2 waiting for another count than the host sends.
NoSpuriousFailure ==
    faults = 0 /\ imageLength >= BootLength /\ pc = "failed" =>
        seq = SeqLimit \/ request.length % 4 = 1

----------------------------------------------------------------------------
(* The inductive invariant. *)

\* Bytes at place 0 to n - 1 of the piece, each the right one.
Prefix(n) == {<<k, ReadStart + k>> : k \in 0 .. n - 1}

\* Before its first request BL2 asked for nothing; a request is a piece of what
\* it wants.
RequestInv ==
    /\ prev = request
    /\ \/ request = NoRequest /\ pc \in {"get", "failed"} /\ ~refused /\ ram = {}
       \/ /\ request \in [length : 1 .. MaxRequest, offset : 0 .. BootLength - 1]
          /\ request.offset + request.length <= BootLength

\* Between two transfers BL2 holds a prefix of the data, and the transfers left
\* are those the rest of it takes; the next one starts at a place wValue can name.
DataInv ==
    /\ pc = "read" => piece = {}
    /\ pc = "transfer" => piece = Prefix(offset)
    /\ pc = "block" => piece = Prefix(offset + sent) /\ offset < length
    /\ pc \in {"transfer", "block"} =>
          /\ length = ReadLength
          /\ transferCount = CeilDiv(length - offset, MaxTransfer)
          /\ offset < length => offset % AmlsBlock = 0

\* Within a transfer, host and BL2 agree on the place and on what is left.
TransferInv ==
    pc = "block" =>
        /\ sent <= WriteLength
        /\ dpos = offset + sent
        /\ dleft = WriteLength - sent
        /\ blockCount = CeilDiv(WriteLength - sent, BlockLength)

\* BL2 has what it asked for unless it refused it, and then asks for something
\* else.
AnswerInv == pc = "get" /\ ~refused => request.offset \notin Missing

\* The inductive invariant: what the host plans, what BL2 expects and what it
\* holds agree at every moment.
IInv ==
    /\ TypeOK /\ RequestInv /\ DataInv /\ TransferInv /\ AnswerInv
    /\ InPlace /\ EndComplete /\ NoSpuriousFailure
=============================================================================
