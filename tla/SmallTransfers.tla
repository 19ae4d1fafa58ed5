--------------------------- MODULE SmallTransfers ---------------------------
(***************************************************************************)
(* Control transfers of pyamlboot.py that carry their data with them:      *)
(* writeMemory and readMemory, the register operations on top of           *)
(* modifyMemory, and get_chipinfo of adnl.py.                              *)
(***************************************************************************)
EXTENDS Integers, Sequences

CONSTANTS
    ChunkSize,      \* 64: the most one transfer carries
    HalfWord,       \* 65536: values of wValue and wIndex
    PageSize,       \* 64: bytes of a chipinfo page
    Places, Bits    \* addresses and bits of the registers

ASSUME TransferAssumption ==
    /\ ChunkSize \in Nat \ {0} /\ HalfWord \in Nat \ {0} /\ PageSize \in Nat
    /\ Places \subseteq Nat

\* The address in the two fields of a control transfer.
Split(address) == [wValue |-> address \div HalfWord, wIndex |-> address % HalfWord]

Transfer(address, offset, n) == [to |-> Split(address + offset), from |-> offset, length |-> n]

\* writeMemory: whole chunks as long as more than one is left.
WriteMemory(address, length) ==
    LET from[k \in 1 .. (length + ChunkSize - 1) \div ChunkSize] == (k - 1) * ChunkSize
    IN  [k \in DOMAIN from |->
            Transfer(address, from[k],
                     IF length - from[k] > ChunkSize THEN ChunkSize ELSE length - from[k])]

\* readSimpleMemory: the bytes from an address on, each named by its address.
Chunk(from, n) == [k \in 1 .. n |-> from + k - 1]

\* data.append of a chunk: bytes have no append, AttributeError.
AppendChunk(s, chunk) == [s EXCEPT !.raised = TRUE]

\* A round of the loop in readMemory: a whole chunk is appended, a shorter rest
\* is added and ends the loop.
ReadRound(address, s) ==
    IF s.raised \/ s.left = 0 THEN s
    ELSE IF s.left >= ChunkSize
         THEN [AppendChunk(s, Chunk(address + s.offset, ChunkSize)) EXCEPT
                  !.left = @ - ChunkSize, !.offset = @ + ChunkSize]
    ELSE [s EXCEPT !.left = 0, !.data = @ \o Chunk(address + s.offset, s.left)]

ReadStart(length) == [left |-> length, offset |-> 0, data |-> <<>>, raised |-> FALSE]

\* readMemory: the loop goes round at most once a byte.
ReadMemory(address, length) ==
    LET round[k \in 0 .. length] ==
          IF k = 0 THEN ReadStart(length) ELSE ReadRound(address, round[k - 1])
    IN  round[length]

\* get_chipinfo: RuntimeError.
ChipInfoFails(offset, nbytes) == offset > 0 /\ offset + nbytes >= PageSize

ChipInfoLength(offset, nbytes) ==
    IF offset + nbytes > PageSize THEN PageSize - offset ELSE nbytes

----------------------------------------------------------------------------
(* A register is the set of its bits that are 1. *)

\* modifyMemory
Modify(opcode, address1, data, mask, address2) ==
    [opcode |-> opcode, mem |-> address1, data |-> data, mask |-> mask, mem2 |-> address2]

writeReg(address, value) == Modify(0, address, value, {}, 0)
maskRegAND(address, mask) == Modify(1, address, {}, mask, 0)
maskRegOR(address, mask) == Modify(2, address, {}, mask, 0)
maskRegNAND(address, mask) == Modify(3, address, {}, mask, 0)
writeRegBits(address, mask, value) == Modify(4, address, value, mask, 0)
copyReg(source, dest) == Modify(5, dest, {}, {}, source)
copyRegMaskAND(source, dest, mask) == Modify(6, dest, {}, mask, source)

\* Mutant of memcpy: the two addresses are swapped.
memcpySwapped(dest, src, n) == Modify(7, dest, n, {}, src)

memcpy(dest, src, n) == Modify(7, src, n, {}, dest)

\* The boot ROM's side, as PROTOCOL.md lists the opcodes.
DevModify(regs, r) ==
    IF r.opcode = 0 THEN [regs EXCEPT ![r.mem] = r.data]
    ELSE IF r.opcode = 1 THEN [regs EXCEPT ![r.mem] = @ \cap r.mask]
    ELSE IF r.opcode = 2 THEN [regs EXCEPT ![r.mem] = @ \cup r.mask]
    ELSE IF r.opcode = 3 THEN [regs EXCEPT ![r.mem] = @ \ r.mask]
    ELSE IF r.opcode = 4 THEN [regs EXCEPT ![r.mem] = (@ \ r.mask) \cup (r.data \cap r.mask)]
    ELSE IF r.opcode = 5 THEN [regs EXCEPT ![r.mem] = regs[r.mem2]]
    ELSE IF r.opcode = 6 THEN [regs EXCEPT ![r.mem] = regs[r.mem2] \cap r.mask]
    ELSE [a \in DOMAIN regs |->
             IF a - r.mem2 \in 0 .. r.data - 1 THEN regs[a - r.mem2 + r.mem] ELSE regs[a]]
=============================================================================
