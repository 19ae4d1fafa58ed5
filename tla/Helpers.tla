------------------------------ MODULE Helpers ------------------------------
(***************************************************************************)
(* The pure helpers against references of their own, over inputs that grow *)
(* one byte, line, character, address or register operation at a time.     *)
(***************************************************************************)
EXTENDS Checksums, PlatformConf, CommandLine, SmallTransfers, FiniteSets

CONSTANTS
    MaxData,        \* bytes summed
    GivenLines,     \* the first lines of a configuration
    MaxLines,       \* all its lines
    LineKeys,       \* keys on the further ones, known or not
    MaxText,        \* characters of a command line
    MaxSpan         \* addresses and lengths of a transfer

ASSUME HelpersAssumption == MaxData \in Nat /\ MaxLines \in Nat /\ MaxText \in Nat /\ MaxSpan \in Nat
ASSUME LinesAssumption == GivenLines \in Seq([key : LineKeys \cup Keys, value : Int])

VARIABLES helper, input

Values == SUBSET Bits
Registers == [Places -> Values]

Init ==
    \/ helper = "checksum" /\ input = <<>>
    \/ helper = "platform" /\ input = GivenLines
    \/ helper = "cmdline" /\ input = <<>>
    \/ helper = "transfer" /\ input = [address |-> 0, length |-> 0]
    \/ helper = "registers" /\ input = [a \in Places |-> {}]

Extend(name, most, items) ==
    /\ helper = name
    /\ Len(input) < most
    /\ \E x \in items : input' = Append(input, x)
    /\ UNCHANGED helper

AppendByte == Extend("checksum", MaxData, 0 .. Base - 1)
AppendLine == Extend("platform", MaxLines, [key : LineKeys, value : {Bad, 1, 2}])
AppendChar == Extend("cmdline", MaxText, {"a", Quote, Slash})

Further(field) ==
    /\ helper = "transfer"
    /\ input[field] < MaxSpan
    /\ input' = [input EXCEPT ![field] = @ + 1]
    /\ UNCHANGED helper

Operate ==
    /\ helper = "registers"
    /\ \E a \in Places, v \in Values : input' = DevModify(input, writeReg(a, v))
    /\ UNCHANGED helper

Next == AppendByte \/ AppendLine \/ AppendChar \/ Further("address") \/ Further("length") \/ Operate
Spec == Init /\ [][Next]_<<helper, input>>

----------------------------------------------------------------------------
\* Weight of byte k of the data, and the sum of all weighted bytes.
Weight(k) == Unit[((k - 1) % 4) + 1]
ByteSum(data) == Total([k \in DOMAIN data |-> data[k] * Weight(k)]) % Modulus

(* The three checksums are the one sum of little-endian words: adnl_checksum  *)
(* for every length; _amlsChecksum and _chksum wherever they return, which    *)
(* are all lengths but 4k+1, and 4k+1 and 4k+3 (pyamlboot.py:452-471,         *)
(* optimus.py:437-456, adnl.py:123-127).                                      *)
ChecksumsAgree ==
    helper = "checksum" =>
        /\ AdnlChecksum(input) = ByteSum(input)
        /\ AmlsChecksum(input) = IF Len(input) % 4 = 1 THEN Error ELSE ByteSum(input)
        /\ UbootChecksum(input) = IF Len(input) % 2 = 1 THEN Error ELSE ByteSum(input)

Lines(key) == {k \in DOMAIN input : input[k].key = key}
First(key) == input[CHOOSE k \in Lines(key) : \A j \in Lines(key) : k <= j].value

(* A platform comes of a configuration exactly when every required key has a  *)
(* line and the first line of every known key can be parsed; that line counts *)
(* and later ones do not, a U-Boot address not given is that of the DDR code, *)
(* and of the attributes the burn steps use only enc_reg1 and enc_reg2, which *)
(* no line can set, are missing (optimus.py:680-719, 151-165).                *)
PlatformSound ==
    helper = "platform" =>
        LET platform == Platform(input)
        IN  /\ (platform # NoConf)
                 <=> /\ \A key \in Required : Lines(key) # {}
                     /\ \A key \in Keys : Lines(key) # {} => First(key) # Bad
            /\ platform # NoConf =>
                 /\ \A key \in Keys :
                       platform[key] =
                          IF Lines(key) # {} THEN First(key)
                          ELSE IF key = "UbootLoad" THEN First("DDRLoad")
                          ELSE IF key = "UbootRun" THEN First("DDRRun")
                          ELSE 0
                 /\ UsedAttributes \ DOMAIN platform = {"enc_reg1", "enc_reg2"}

(* A command line that is not refused for its length reaches the kernel as it *)
(* was typed: the shell takes off exactly what the escaping put on, and no    *)
(* quote stays open (runKernel.py:64-79).                                     *)
CmdlineSurvives ==
    helper = "cmdline" =>
        \/ TooLong(Escape(input))
        \/ LET shell == Hush(Escape(input))
           IN  shell.out = input /\ ~shell.quoted /\ ~shell.slash

\* The bytes of the buffer a list of transfers puts at an address.
PutAt(transfers, place) ==
    {p \in (DOMAIN transfers) \X (0 .. MaxSpan) :
        LET t == transfers[p[1]]
        IN  /\ p[2] - t.from \in 0 .. t.length - 1
            /\ t.to.wValue * HalfWord + t.to.wIndex + p[2] - t.from = place}

\* readMemory returns all the bytes asked for.
ReadsAll ==
    LET read == ReadMemory(input.address, input.length)
    IN  ~read.raised /\ read.data = [k \in 1 .. input.length |-> input.address + k - 1]

\* The range lies in a page of the chip information.
InPage == input.address + input.length <= PageSize

(* writeMemory puts each byte once, at its address and at no other, in        *)
(* transfers of at most ChunkSize bytes with fields that fit, also where the  *)
(* high half of the address changes; readMemory returns for less than a       *)
(* chunk, and wherever it returns, the bytes at the address in their order;   *)
(* get_chipinfo returns what was asked for of a range that ends before the    *)
(* page does, and wherever it returns, no more than the page has              *)
(* (pyamlboot.py:78-140, adnl.py:178-195).                                    *)
SpanSound ==
    LET transfers == WriteMemory(input.address, input.length)
    IN  /\ \A place \in 0 .. 2 * MaxSpan :
              PutAt(transfers, place) = {} <=> place - input.address \notin 0 .. input.length - 1
        /\ \A i \in 0 .. input.length - 1 :
              \E k \in DOMAIN transfers : PutAt(transfers, input.address + i) = {<<k, i>>}
        /\ \A k \in DOMAIN transfers :
              transfers[k].length \in 1 .. ChunkSize /\ transfers[k].to.wIndex < HalfWord
        /\ input.length < ChunkSize => ~ReadMemory(input.address, input.length).raised
        /\ ~ReadMemory(input.address, input.length).raised => ReadsAll
        /\ ~ChipInfoFails(input.address, input.length) /\ input.address < PageSize =>
              ChipInfoLength(input.address, input.length) =
                 IF InPage THEN input.length ELSE PageSize - input.address
        /\ input.address + input.length < PageSize =>
              ~ChipInfoFails(input.address, input.length)

Only(request, place, value) == DevModify(input, request) = [input EXCEPT ![place] = value]
Apart(dest, src, n) == \A i, j \in 0 .. n - 1 : dest + i # src + j

(* Every register operation, through the boot ROM's opcodes, does to its      *)
(* address what its docstring says, and nothing to any other                  *)
(* (pyamlboot.py:157-187).                                                    *)
RegistersSound ==
    /\ \A a \in Places, v, m \in Values :
          /\ Only(writeReg(a, v), a, v)
          /\ Only(maskRegAND(a, m), a, input[a] \cap m)
          /\ Only(maskRegOR(a, m), a, input[a] \cup m)
          /\ Only(maskRegNAND(a, m), a, input[a] \ m)
          /\ Only(writeRegBits(a, m, v), a, {b \in Bits : IF b \in m THEN b \in v ELSE b \in input[a]})
    /\ \A src, dest \in Places, m \in Values :
          /\ Only(copyReg(src, dest), dest, input[src])
          /\ Only(copyRegMaskAND(src, dest, m), dest, input[src] \cap m)
          /\ \A n \in 0 .. Cardinality(Places) :
                Apart(dest, src, n) /\ dest + n - 1 \in Places \cup {dest - 1}
                  /\ src + n - 1 \in Places \cup {src - 1} =>
                  \A a \in Places :
                     DevModify(input, memcpy(dest, src, n))[a] =
                        IF a \in dest .. dest + n - 1 THEN input[src + a - dest] ELSE input[a]

\* The transfers and the register operations, each on its own inputs.
TransfersSound ==
    /\ helper = "transfer" => SpanSound
    /\ helper = "registers" => RegistersSound

(* readMemory reads "some data" of any length, as its docstring and its branch *)
(* for 64 bytes and more have it (pyamlboot.py:125-140).                       *)
ReadMemoryReturnsAll == helper = "transfer" => ReadsAll

(* get_chipinfo returns "the requested 'nbytes' from specified 'offset' inside *)
(* the 'page'", also when they end with it (adnl.py:175-176, 192).             *)
ChipInfoReturnsRequested ==
    helper = "transfer" /\ InPage /\ input.length > 0 =>
        /\ ~ChipInfoFails(input.address, input.length)
        /\ ChipInfoLength(input.address, input.length) = input.length
=============================================================================
