---------------------------- MODULE LargeMemory ----------------------------
(***************************************************************************)
(* writeLargeMemory and readLargeMemory of pyamlboot.py: a buffer is cut   *)
(* into transfers of at most MAX_LARGE_BLOCK_COUNT blocks, each transfer   *)
(* is announced to the boot ROM by a control transfer that carries the     *)
(* address and a 16-bit block count, and its blocks then cross a bulk      *)
(* endpoint one by one.                                                    *)
(*                                                                         *)
(* Bytes are identified by their index: host byte i is data[i], device     *)
(* byte a is the byte at (address argument + a).  "moved" relates the host *)
(* index of every byte that crossed the endpoint to its device index.      *)
(***************************************************************************)
EXTENDS Integers, Blocks

CONSTANTS
    MaxBlocks,      \* MAX_LARGE_BLOCK_COUNT, 65535 in the code
    Lengths,        \* the lengths callers ask for
    BlockLengths    \* the blockLength arguments of the callers

ASSUME MaxBlocksAssumption == MaxBlocks \in Nat \ {0}
ASSUME LengthsAssumption == Lengths \subseteq Nat
ASSUME BlockLengthsAssumption == BlockLengths \subseteq Nat \ {0}

VARIABLES
    call,           \* the arguments: operation, length, blockLength, appendZeros
    pc,             \* where the call stands
    transferCount,  \* transfers still to make
    offset,         \* bytes of the buffer covered by finished transfers
    size,           \* length announced for the current transfer
    blockCount,     \* blocks of the current transfer the host has still to move
    sent,           \* bytes of the current transfer already moved
    got,            \* bytes appended to the result by a read
    devPos,         \* device: index of the next byte of the current transfer
    devLeft,        \* device: blocks of the current transfer still expected
    moved           \* <<host index, device index>> of every byte moved

hostVars == <<pc, transferCount, offset, size, blockCount, sent, got>>
vars == <<call, hostVars, devPos, devLeft, moved>>

Calls == [op : {"write", "read"}, len : Lengths, block : BlockLengths,
          pad : BOOLEAN]

States == {"loop", "transfer", "done", "refused", "failed"}

\* Mutant of Transfers: the remainders are lost.
FloorTransfers(length, block) == (length \div block) \div MaxBlocks

Transfers(length, block) == CeilDiv(CeilDiv(length, block), MaxBlocks)

\* Bytes of the buffer the next transfer covers.
ChunkLength ==
    IF offset + MaxBlocks * call.block > call.len
    THEN call.len - offset
    ELSE MaxBlocks * call.block

\* Mutant of Padded: a block is added even when nothing remains.
PaddedAlways(n) == IF call.pad THEN n + (call.block - (n % call.block)) ELSE n

\* appendZeros makes a chunk longer by the remainder of its length.
Padded(n) == IF call.pad THEN n + (n % call.block) ELSE n

\* Mutant of Word: a count of 65535 wraps.
NarrowWord(n) == n % MaxBlocks

\* A control transfer carries the block count in a 16-bit field (65535 + 1).
Word(n) == n % (MaxBlocks + 1)

\* A slice past the end of the buffer is short.
PacketLength ==
    IF sent + call.block > size THEN size - sent ELSE call.block

\* A write sends data[offset + sent ...]; a read appends to what it has.
HostPos == IF call.op = "write" THEN offset + sent ELSE got

\* Mutant of ChunkAddress: the address is not advanced.
AddressNotAdvanced == 0

\* Address announced for the chunk, relative to the address argument.
ChunkAddress == offset

\* Mutant of TransfersLeft: nothing is counted off.
NotCountedOff == transferCount

TransfersLeft == transferCount - 1

Init ==
    /\ call \in Calls
    /\ pc = "loop"
    /\ transferCount = Transfers(call.len, call.block)
    /\ offset = 0
    /\ size = 0
    /\ blockCount = 0
    /\ sent = 0
    /\ got = 0
    /\ devPos = 0
    /\ devLeft = 0
    /\ moved = {}

\* Mutant of Accepted: the length is compared with the wrong constant.
AcceptedByCount == call.pad \/ ChunkLength % MaxBlocks = 0

Accepted == call.pad \/ ChunkLength % call.block = 0

\* The control transfer: the host computes the block count, the device takes
\* the address and the low 16 bits of the count.
Announce ==
    /\ pc = "loop"
    /\ transferCount > 0
    /\ Accepted
    /\ size' = Padded(ChunkLength)
    /\ blockCount' = CeilDiv(Padded(ChunkLength), call.block)
    /\ sent' = 0
    /\ devPos' = ChunkAddress
    /\ devLeft' = Word(CeilDiv(Padded(ChunkLength), call.block))
    /\ pc' = "transfer"
    /\ UNCHANGED <<call, transferCount, offset, got, moved>>

\* ValueError: the chunk is not a multiple of the block length.
Refuse ==
    /\ pc = "loop"
    /\ transferCount > 0
    /\ ~Accepted
    /\ pc' = "refused"
    /\ UNCHANGED <<call, transferCount, offset, size, blockCount, sent, got,
                   devPos, devLeft, moved>>

\* One ep.write or ep.read; the device takes part while it expects blocks.
MoveBlock ==
    /\ pc = "transfer"
    /\ blockCount > 0
    /\ devLeft > 0
    /\ moved' = moved \cup {<<HostPos + k, devPos + k>> :
                                k \in 0 .. PacketLength - 1}
    /\ sent' = sent + PacketLength
    /\ got' = got + PacketLength
    /\ devPos' = devPos + PacketLength
    /\ blockCount' = blockCount - 1
    /\ devLeft' = devLeft - 1
    /\ UNCHANGED <<call, pc, transferCount, offset, size>>

EndTransfer ==
    /\ pc = "transfer"
    /\ blockCount = 0
    /\ offset' = offset + ChunkLength
    /\ transferCount' = TransfersLeft
    /\ sent' = 0
    /\ pc' = "loop"
    /\ UNCHANGED <<call, size, blockCount, got, devPos, devLeft, moved>>

Return ==
    /\ pc = "loop"
    /\ transferCount = 0
    /\ pc' = "done"
    /\ UNCHANGED <<call, transferCount, offset, size, blockCount, sent, got,
                   devPos, devLeft, moved>>

\* A control or bulk transfer fails or times out: USBError leaves the call.
UsbError ==
    /\ \/ pc = "loop" /\ transferCount > 0 /\ Accepted
       \/ pc = "transfer" /\ blockCount > 0
    /\ pc' = "failed"
    /\ UNCHANGED <<call, transferCount, offset, size, blockCount, sent, got,
                   devPos, devLeft, moved>>

Ended == pc \in {"done", "refused", "failed"}

Next == Announce \/ Refuse \/ MoveBlock \/ EndTransfer \/ Return \/ UsbError

Spec == Init /\ [][Next]_vars

\* Every transfer ends or times out (1000 ms write, 100 ms read), so the
\* call always takes its next step.
FairSpec == Spec /\ WF_vars(Next)

----------------------------------------------------------------------------

Identity(n) == {<<i, i>> : i \in 0 .. n - 1}

\* Every variable stays in its type.
TypeOK ==
    /\ call \in Calls
    /\ pc \in States
    /\ transferCount \in Nat
    /\ offset \in Nat
    /\ size \in Nat
    /\ blockCount \in Nat
    /\ sent \in Nat
    /\ got \in Nat
    /\ devPos \in Nat
    /\ devLeft \in 0 .. MaxBlocks
    /\ moved \subseteq Nat \X Nat

\* At every moment, whatever fails later, what has crossed the endpoint is a
\* gap-free prefix of the buffer, each byte at its own place: no chunk skips,
\* repeats or displaces a byte (writeLargeMemory 240-258 and its read twin).
PrefixInPlace == moved = Identity(got) /\ offset + sent <= got

\* A call that returns moved the whole buffer, and beyond it only the
\* len % blockLength bytes that appendZeros adds to the last chunk.
DoneComplete == pc = "done" => moved = Identity(Padded(call.len))

\* The multiple-of-block-length check runs per chunk, so a refused call may
\* have moved earlier chunks: it moved all the full chunks and nothing of the
\* last one, and the length really was ragged.
RefusedAfterFullChunks ==
    pc = "refused" =>
        /\ call.len % call.block # 0
        /\ offset % (MaxBlocks * call.block) = 0
        /\ call.len - offset <= MaxBlocks * call.block
        /\ moved = Identity(offset)

\* Every announced count fits its 16-bit field: the device expects exactly
\* the blocks the host is about to move.
CountFits == pc = "transfer" => devLeft = blockCount

\* Without appendZeros that is so, and between transfers host and device agree
\* that nothing is outstanding: the next control transfer finds the ROM idle.
UnpaddedCountFits ==
    ~call.pad =>
        /\ CountFits
        /\ pc \in {"loop", "done"} => devLeft = 0

\* With appendZeros the announced size is a multiple of the block length.
PaddedIsMultiple == pc = "transfer" => size % call.block = 0

\* The inductive invariant behind the four properties above.  Between
\* transfers the bytes moved are those before "offset", which lies on a chunk
\* boundary while transfers are left; transferCount is always the number of
\* transfers the rest of the buffer needs; inside a transfer host and device
\* stand at the same byte and the host's block count covers the bytes left.
RestInv ==
    /\ offset <= call.len
    /\ transferCount = Transfers(call.len - offset, call.block)
    /\ transferCount > 0 => offset % (MaxBlocks * call.block) = 0

BetweenInv ==
    pc \in {"loop", "refused", "done"} =>
        /\ sent = 0
        /\ got = IF transferCount > 0 THEN offset ELSE Padded(call.len)
        /\ ~call.pad => devLeft = 0
        /\ pc = "done" => transferCount = 0
        /\ pc = "refused" => transferCount > 0 /\ ~Accepted

TransferInv ==
    pc = "transfer" =>
        /\ transferCount > 0
        /\ Accepted
        /\ size = Padded(ChunkLength)
        /\ sent <= size
        /\ got = offset + sent
        /\ devPos = offset + sent
        /\ blockCount = CeilDiv(size - sent, call.block)
        /\ ~call.pad => devLeft = blockCount

IInv == TypeOK /\ PrefixInPlace /\ RestInv /\ BetweenInv /\ TransferInv

\* Every call returns, refuses its argument or fails: no chunk repeats forever.
Terminates == <>Ended
=============================================================================
