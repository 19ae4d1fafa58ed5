--------------------------- MODULE AmlcBootProofs ---------------------------
(***************************************************************************)
(* Proofs about AmlcBoot for every block, transfer and request length,     *)
(* every image and every number of faults.                                 *)
(***************************************************************************)
EXTENDS AmlcBoot, TLAPS

----------------------------------------------------------------------------
(* Lemmas on CeilDiv and %. *)

\* The number of blocks, by what it holds and not by how it is computed.
LEMMA CeilIs ==
  ASSUME NEW b \in Nat \ {0}, NEW a \in Nat
  PROVE /\ CeilDiv(a, b) \in Nat
        /\ a <= b * CeilDiv(a, b) /\ b * CeilDiv(a, b) < a + b
        /\ \A q \in Nat : a <= b * q /\ b * q < a + b => CeilDiv(a, b) = q
<1>1. PICK x \in Nat, r \in 0 .. b - 1 : a = b * x + r /\ x = a \div b /\ r = a % b
  <2>1. a = b * (a \div b) + (a % b) /\ a \div b \in Nat /\ a % b \in 0 .. b - 1
    OBVIOUS
  <2>. QED
    BY <2>1
<1>2. PICK p \in Nat : p = CeilDiv(a, b) /\ p = IF r > 0 THEN x + 1 ELSE x
  BY <1>1 DEF CeilDiv
<1>3. PICK y \in Nat : y = b * x /\ y + b = b * (x + 1)
  OBVIOUS
<1>4. PICK u \in Nat : u = b * p /\ a <= u /\ u < a + b
  BY <1>1, <1>2, <1>3
<1>5. ASSUME NEW q \in Nat, a <= b * q, b * q < a + b PROVE q = p
  <2>1. \A c, d \in Nat : c < d => b * c + b <= b * d
    <3>. SUFFICES ASSUME NEW c \in Nat, NEW d \in Nat, c < d PROVE b * c + b <= b * d
      OBVIOUS
    <3>1. PICK e \in Nat : d = c + 1 + e
      OBVIOUS
    <3>2. b * d = b * c + b + b * e /\ b * e \in Nat /\ b * c \in Nat
      BY <3>1
    <3>. QED
      BY <3>2
  <2>2. PICK v \in Nat : v = b * q
    OBVIOUS
  <2>3. ~ (p < q) /\ ~ (q < p)
    BY <1>4, <1>5, <2>1, <2>2
  <2>. QED
    BY <2>3
<1>. QED
  BY <1>2, <1>4, <1>5

\* No bytes, and no others, need no block.
LEMMA CeilNat ==
  ASSUME NEW b \in Nat \ {0}, NEW a \in Nat
  PROVE CeilDiv(a, b) \in Nat /\ (CeilDiv(a, b) = 0 <=> a = 0)
<1>1. b * 0 = 0
  OBVIOUS
<1>2. a = 0 => CeilDiv(a, b) = 0
  BY <1>1, CeilIs
<1>3. CeilDiv(a, b) = 0 => a = 0
  BY <1>1, CeilIs
<1>. QED
  BY <1>2, <1>3, CeilIs

\* Moving one block, or the rest when it is shorter, uses up one of the blocks.
LEMMA CeilStep ==
  ASSUME NEW b \in Nat \ {0}, NEW a \in Nat \ {0}, NEW n \in Nat,
         n = IF a > b THEN b ELSE a
  PROVE /\ n \in 1 .. b /\ n <= a
        /\ CeilDiv(a - n, b) = CeilDiv(a, b) - 1
<1>1. PICK q \in Nat : q = CeilDiv(a, b) /\ a <= b * q /\ b * q < a + b /\ q # 0
  BY CeilIs, CeilNat
<1>2. PICK p \in Nat, y \in Nat : p = q - 1 /\ y = b * p /\ b * q = y + b
  BY <1>1
<1>3. PICK c \in Nat : c = a - n /\ n \in 1 .. b /\ n <= a
  <2>1. n \in 1 .. b /\ n <= a
    OBVIOUS
  <2>2. a - n \in Nat
    BY <2>1
  <2>. QED
    BY <2>1, <2>2
<1>4. c <= y /\ y < c + b
  BY <1>1, <1>2, <1>3
<1>5. CeilDiv(c, b) = p
  BY <1>2, <1>4, CeilIs
<1>. QED
  BY <1>1, <1>2, <1>3, <1>5

\* A length of 1 to b survives a field that counts it minus one.
LEMMA CountOffByOne ==
  ASSUME NEW b \in Nat \ {0}, NEW n \in 1 .. b
  PROVE (n - 1) % b = n - 1
<1>1. PICK c \in 0 .. b - 1 : c = n - 1
  OBVIOUS
<1>2. c % b = c
  OBVIOUS
<1>. QED
  BY <1>1, <1>2

\* A whole number of blocks keeps its place in a field that counts blocks.
LEMMA WholeBlocks ==
  ASSUME NEW b \in Nat \ {0}, NEW a \in Nat, NEW c \in Nat,
         a % b = 0, c % b = 0
  PROVE (a \div b) * b = a /\ (a + c) % b = 0
<1>1. PICK x \in Nat : x = a \div b /\ a = b * x
  <2>1. a = b * (a \div b) + (a % b) /\ a \div b \in Nat
    OBVIOUS
  <2>. QED
    BY <2>1
<1>2. PICK y \in Nat : y = c \div b /\ c = b * y
  <2>1. c = b * (c \div b) + (c % b) /\ c \div b \in Nat
    OBVIOUS
  <2>. QED
    BY <2>1
<1>3. (a \div b) * b = a
  BY <1>1
<1>4. PICK z \in Nat : z = x + y /\ a + c = b * z
  <2>1. b * (x + y) = b * x + b * y /\ x + y \in Nat
    OBVIOUS
  <2>. QED
    BY <1>1, <1>2, <2>1
<1>5. (b * z) % b = 0
  <2>1. PICK q \in Int, t \in 0 .. b - 1 : b * z = b * q + t /\ t = (b * z) % b
    <3>1. b * z \in Nat
      OBVIOUS
    <3>2. PICK w \in Nat : w = b * z
      BY <3>1
    <3>3. w = b * (w \div b) + (w % b) /\ w \div b \in Int /\ w % b \in 0 .. b - 1
      OBVIOUS
    <3>. QED
      BY <3>2, <3>3
  <2>2. PICK d \in Int : d = z - q /\ t = b * d
    <3>1. b * (z - q) = b * z - b * q /\ z - q \in Int /\ b * z \in Int /\ b * q \in Int
      OBVIOUS
    <3>. QED
      BY <2>1, <3>1
  <2>3. d \notin {e \in Int : e >= 1} /\ d \notin {e \in Int : e <= -1}
    <3>1. ASSUME d >= 1 PROVE FALSE
      <4>1. PICK e \in Nat : d = e + 1
        BY <2>2, <3>1
      <4>2. b * d = b * e + b /\ b * e \in Nat
        BY <4>1
      <4>. QED
        BY <2>1, <2>2, <4>2
    <3>2. ASSUME d <= -1 PROVE FALSE
      <4>1. PICK e \in Nat : d = -1 - e
        BY <2>2, <3>2
      <4>2. b * d = -b - b * e /\ b * e \in Nat
        BY <4>1
      <4>. QED
        BY <2>1, <2>2, <4>2
    <3>. QED
      BY <3>1, <3>2
  <2>4. d = 0
    BY <2>2, <2>3
  <2>. QED
    BY <2>1, <2>2, <2>4
<1>. QED
  BY <1>3, <1>4, <1>5

USE AmlcAssumption

----------------------------------------------------------------------------
(* The pieces of an image and the transfers of a piece. *)

\* The data read for a request is no longer than the request, and not empty
\* when the image reaches that far.
LEMMA ReadLengthType ==
  ASSUME prev \in [length : 1 .. MaxRequest, offset : 0 .. BootLength - 1],
         imageLength \in ImageLengths
  PROVE /\ ReadLength \in 0 .. prev.length
        /\ imageLength >= BootLength => ReadLength > 0
<1>1. imageLength \in Nat
  OBVIOUS
<1>2. prev.length \in Nat /\ prev.offset \in Nat /\ prev.offset < BootLength
      /\ prev.length >= 1
  OBVIOUS
<1>. QED
  BY <1>1, <1>2 DEF ReadLength

\* A transfer takes at least one byte, and no more than it can count.
LEMMA WriteLengthType ==
  ASSUME length \in Nat, offset \in Nat, offset < length
  PROVE /\ WriteLength \in 1 .. MaxTransfer
        /\ offset + WriteLength < length => WriteLength = MaxTransfer
        /\ offset + WriteLength <= length
        /\ CountField(WriteLength) + 1 = WriteLength
        /\ CeilDiv(length - (offset + WriteLength), MaxTransfer)
             = CeilDiv(length - offset, MaxTransfer) - 1
<1>1. PICK a \in Nat \ {0} : a = length - offset
  OBVIOUS
<1>2. WriteLength = IF a > MaxTransfer THEN MaxTransfer ELSE a
  BY <1>1 DEF WriteLength
<1>3. PICK n \in Nat : n = WriteLength
  BY <1>2
<1>4. n \in 1 .. MaxTransfer /\ n <= a
      /\ CeilDiv(a - n, MaxTransfer) = CeilDiv(a, MaxTransfer) - 1
  BY <1>2, <1>3, CeilStep
<1>5. (n - 1) % MaxTransfer = n - 1
  BY <1>4, CountOffByOne
<1>6. CountField(n) + 1 = n
  BY <1>5 DEF CountField
<1>7. length - (offset + n) = a - n
  BY <1>1
<1>. QED
  BY <1>1, <1>2, <1>3, <1>4, <1>6, <1>7

\* A prefix grows by the bytes that are sent next.
LEMMA PrefixExtend ==
  ASSUME NEW g \in Nat, NEW n \in Nat, prev.offset \in Int
  PROVE Prefix(g) \cup {<<g + k, ReadStart + g + k>> : k \in 0 .. n - 1}
          = Prefix(g + n)
<1>1. ASSUME NEW i \in 0 .. g + n - 1, i >= g
      PROVE \E k \in 0 .. n - 1 :
                <<i, ReadStart + i>> = <<g + k, ReadStart + g + k>>
  <2>1. i - g \in 0 .. n - 1 /\ g + (i - g) = i
        /\ ReadStart + g + (i - g) = ReadStart + i
    BY <1>1 DEF ReadStart
  <2>. QED
    BY <2>1
<1>2. \A k \in 0 .. n - 1 : g + k \in 0 .. g + n - 1
                            /\ ReadStart + g + k = ReadStart + (g + k)
  BY DEF ReadStart
<1>3. \A i \in 0 .. g - 1 : i \in 0 .. g + n - 1
  OBVIOUS
<1>4. \A i \in 0 .. g + n - 1 : i \in 0 .. g - 1 \/ i >= g
  OBVIOUS
<1>. QED
  BY <1>1, <1>2, <1>3, <1>4 DEF Prefix

\* Before the first byte of a piece, its prefix is empty.
LEMMA PrefixEmpty == Prefix(0) = {}
BY DEF Prefix

----------------------------------------------------------------------------
(* One lemma per action. *)

\* The first request is still to come: BL2 misses the whole image.
LEMMA InitIInv == Init => IInv
<1>. SUFFICES ASSUME Init PROVE IInv
  OBVIOUS
<1>. USE DEF Init
<1>1. TypeOK
  <2>1. /\ 0 \in 0 .. SeqLimit /\ 0 \in 0 .. MaxRequest /\ 0 \in 0 .. 0
        /\ 0 \in 0 .. MaxTransfer /\ 0 \in 0 .. MaxFaults
    OBVIOUS
  <2>. QED
    BY <2>1 DEF TypeOK, Ended
<1>2. RequestInv /\ DataInv /\ TransferInv
  BY DEF RequestInv, DataInv, TransferInv
<1>3. AnswerInv
  BY DEF AnswerInv, NoRequest, Missing
<1>4. InPlace /\ EndComplete /\ NoSpuriousFailure
  BY DEF InPlace, EndComplete, NoSpuriousFailure
<1>. QED
  BY <1>1, <1>2, <1>3, <1>4 DEF IInv

\* A request that repeats means the end: what BL2 accepted answers it.
LEMMA GetStep == IInv /\ GetBootAMLC => IInv'
<1>. SUFFICES ASSUME IInv, GetBootAMLC PROVE IInv'
  OBVIOUS
<1>. USE DEF IInv, GetBootAMLC
<1>1. PICK r \in Requests : request' = r /\ prev' = r
                            /\ pc' = IF Repeated(r) THEN "done" ELSE "read"
  OBVIOUS
<1>2. Missing' = Missing
  BY DEF Missing
<1>3. request = NoRequest => Missing # {}
  <2>1. request = NoRequest => 0 \in Missing
    BY DEF RequestInv, Missing, NoRequest
  <2>. QED
    BY <2>1
<1>4. /\ r \in [length : 1 .. MaxRequest, offset : 0 .. BootLength - 1]
      /\ r.offset + r.length <= BootLength
  <2>1. Missing \subseteq 0 .. BootLength - 1
    BY DEF Missing
  <2>2. CASE refused \/ Missing = {}
    BY <1>1, <1>3, <2>2 DEF Requests, RequestInv
  <2>3. CASE ~(refused \/ Missing = {})
    <3>1. /\ r \in [length : 1 .. MaxRequest, offset : Missing]
          /\ Places(r) \subseteq 0 .. BootLength - 1
      BY <1>1, <2>1, <2>3 DEF Requests
    <3>2. r.offset \in Nat /\ r.length \in 1 .. MaxRequest
      <4>1. r.offset \in Missing /\ r.length \in 1 .. MaxRequest
        BY <3>1
      <4>2. r.offset \in 0 .. BootLength - 1
        BY <2>1, <4>1, Zenon
      <4>. QED
        BY <4>1, <4>2
    <3>3. r.offset + r.length - 1 \in Places(r)
      BY <3>2 DEF Places
    <3>4. r.offset + r.length - 1 \in 0 .. BootLength - 1
      BY <3>1, <3>3
    <3>5. r.offset + r.length <= BootLength
      BY <3>2, <3>4
    <3>. QED
      BY <2>1, <3>1, <3>5
  <2>. QED
    BY <2>2, <2>3
<1>5. Repeated(r) => refused \/ Missing = {}
  <2>. SUFFICES ASSUME Repeated(r), ~refused, Missing # {} PROVE FALSE
    OBVIOUS
  <2>1. r.offset \in Missing
    BY <1>1 DEF Requests
  <2>2. r = request
    BY DEF Repeated, RequestInv
  <2>. QED
    BY <2>1, <2>2 DEF AnswerInv
<1>6. TypeOK'
  BY <1>1 DEF TypeOK, Ended
<1>7. RequestInv'
  BY <1>1, <1>4 DEF RequestInv
<1>8. DataInv' /\ TransferInv'
  BY <1>1 DEF DataInv, TransferInv
<1>9. AnswerInv' /\ InPlace' /\ NoSpuriousFailure'
  BY <1>1 DEF AnswerInv, InPlace, NoSpuriousFailure
<1>10. EndComplete'
  BY <1>1, <1>2, <1>5 DEF EndComplete
<1>. QED
  BY <1>6, <1>7, <1>8, <1>9, <1>10

\* Reading the image plans the transfers of the whole data.
LEMMA ReadStep == IInv /\ ReadImage => IInv'
<1>. SUFFICES ASSUME IInv, ReadImage PROVE IInv'
  OBVIOUS
<1>. USE DEF IInv, ReadImage
<1>0. UNCHANGED <<tool, imageLength, seq, prev, sent, blockCount, faults, request,
                  refused, dpos, dleft, piece, ram>>
  BY DEF devVars
<1>1. prev \in [length : 1 .. MaxRequest, offset : 0 .. BootLength - 1]
      /\ imageLength \in ImageLengths
  BY DEF RequestInv, TypeOK
<1>2. /\ ReadLength \in 0 .. prev.length
      /\ imageLength >= BootLength => ReadLength > 0
  BY <1>1, ReadLengthType
<1>3. PICK n \in Nat : n = ReadLength /\ n <= MaxRequest
  BY <1>1, <1>2
<1>4. CeilDiv(n, MaxTransfer) \in Nat /\ n - 0 = n
  BY CeilNat
<1>5. TypeOK'
  BY <1>0, <1>3, <1>4 DEF TypeOK, Ended
<1>6. RequestInv'
  BY <1>0, <1>1 DEF RequestInv
<1>7. DataInv'
  <2>1. ReadLength' = ReadLength
    BY <1>0 DEF ReadLength
  <2>2. Prefix(0)' = {}
    BY DEF Prefix
  <2>3. 0 % AmlsBlock = 0
    OBVIOUS
  <2>. QED
    BY <1>0, <1>3, <1>4, <2>1, <2>2, <2>3 DEF DataInv, Prefix
<1>8. TransferInv' /\ AnswerInv' /\ EndComplete'
  BY <1>0 DEF TransferInv, AnswerInv, EndComplete
<1>9. InPlace' /\ NoSpuriousFailure'
  BY <1>0, <1>2 DEF InPlace, NoSpuriousFailure
<1>. QED
  BY <1>5, <1>6, <1>7, <1>8, <1>9

\* The control transfer announces to BL2 exactly what the packets will bring.
LEMMA StartStep == IInv /\ StartTransfer => IInv'
<1>. SUFFICES ASSUME IInv, StartTransfer PROVE IInv'
  OBVIOUS
<1>. USE DEF IInv, StartTransfer
<1>1. length \in Nat /\ offset \in Nat /\ offset < length
  <2>1. length \in Nat /\ offset \in 0 .. length
    BY DEF TypeOK
  <2>2. length # offset
    <3>1. CeilDiv(0, MaxTransfer) = 0
      BY CeilNat
    <3>. QED
      BY <2>1, <3>1 DEF DataInv
  <2>. QED
    BY <2>1, <2>2
<1>2. /\ WriteLength \in 1 .. MaxTransfer
      /\ CountField(WriteLength) + 1 = WriteLength
      /\ WriteLength' = WriteLength
  BY <1>1, WriteLengthType DEF WriteLength
<1>3. PICK n \in 1 .. MaxTransfer : n = WriteLength
  BY <1>2
<1>4. CeilDiv(n, BlockLength) \in Nat
  BY CeilNat
<1>10. PlaceField * AmlsBlock = offset
  <2>1. offset % AmlsBlock = 0
    BY <1>1 DEF DataInv
  <2>. QED
    BY <1>1, <2>1, WholeBlocks DEF PlaceField
<1>5. TypeOK'
  BY <1>1, <1>2, <1>3, <1>4, <1>10 DEF TypeOK
<1>6. RequestInv'
  BY DEF RequestInv
<1>7. DataInv'
  <2>1. ReadLength' = ReadLength /\ offset + 0 = offset
    BY <1>1 DEF ReadLength
  <2>2. Prefix(offset)' = Prefix(offset)
    BY DEF Prefix, ReadStart
  <2>. QED
    BY <1>1, <2>1, <2>2 DEF DataInv, Prefix, ReadStart
<1>8. TransferInv'
  <2>1. n - 0 = n /\ offset + 0 = offset
    BY <1>1
  <2>. QED
    BY <1>2, <1>3, <1>10, <2>1 DEF TransferInv
<1>9. AnswerInv' /\ InPlace' /\ EndComplete' /\ NoSpuriousFailure'
  BY DEF AnswerInv, InPlace, EndComplete, NoSpuriousFailure
<1>. QED
  BY <1>5, <1>6, <1>7, <1>8, <1>9

\* A packet is never empty, never more than BL2 expects, and uses up one of the
\* blocks of the transfer.
LEMMA PacketType ==
  ASSUME IInv, pc = "block", blockCount > 0
  PROVE /\ PacketLength \in Nat \ {0}
        /\ sent + PacketLength <= WriteLength
        /\ dleft >= PacketLength
        /\ CeilDiv(WriteLength - (sent + PacketLength), BlockLength) = blockCount - 1
<1>1. /\ WriteLength \in 1 .. MaxTransfer /\ sent \in Nat /\ sent <= WriteLength
      /\ dleft = WriteLength - sent
      /\ blockCount = CeilDiv(WriteLength - sent, BlockLength)
  BY WriteLengthType DEF IInv, TypeOK, DataInv, TransferInv
<1>2. PICK a \in Nat : a = WriteLength - sent
  BY <1>1
<1>3. a # 0
  BY <1>1, <1>2, CeilNat
<1>4. PICK n \in Nat : n = PacketLength /\ n = IF a > BlockLength THEN BlockLength ELSE a
  BY <1>2 DEF PacketLength
<1>5. n \in 1 .. BlockLength /\ n <= a
      /\ CeilDiv(a - n, BlockLength) = CeilDiv(a, BlockLength) - 1
  BY <1>3, <1>4, CeilStep
<1>6. WriteLength - (sent + n) = a - n /\ sent + n <= WriteLength
  BY <1>1, <1>2, <1>5
<1>. QED
  BY <1>1, <1>2, <1>4, <1>5, <1>6

\* A packet extends the prefix BL2 holds of the piece.
LEMMA SendStep == IInv /\ SendBlock => IInv'
<1>. SUFFICES ASSUME IInv, SendBlock PROVE IInv'
  OBVIOUS
<1>. USE DEF IInv, SendBlock
<1>1. PICK n \in Nat \ {0} :
         /\ n = PacketLength /\ sent + n <= WriteLength
         /\ CeilDiv(WriteLength - (sent + n), BlockLength) = blockCount - 1
  BY PacketType
<1>2. /\ length \in Nat /\ offset \in Nat /\ sent \in Nat /\ length <= MaxRequest
      /\ WriteLength \in 1 .. MaxTransfer /\ offset + WriteLength <= length
      /\ WriteLength' = WriteLength
  BY WriteLengthType DEF TypeOK, DataInv, WriteLength
<1>3. dpos = offset + sent /\ dleft = WriteLength - sent
  BY DEF TransferInv
<1>4. PICK g \in Nat : g = offset + sent
  BY <1>2
<1>5. piece' = Prefix(offset + sent')
  <2>1. prev.offset \in Int
    BY DEF RequestInv
  <2>2. piece' = Prefix(g) \cup {<<g + k, ReadStart + offset + sent + k>> :
                                     k \in 0 .. n - 1}
    BY <1>1, <1>3, <1>4 DEF DataInv
  <2>3. {<<g + k, ReadStart + offset + sent + k>> : k \in 0 .. n - 1}
          = {<<g + k, ReadStart + g + k>> : k \in 0 .. n - 1}
    <3>1. ReadStart + offset + sent = ReadStart + g
      BY <1>2, <1>4, <2>1 DEF ReadStart
    <3>. QED
      BY <3>1
  <2>4. Prefix(g) \cup {<<g + k, ReadStart + g + k>> : k \in 0 .. n - 1}
          = Prefix(g + n)
    BY <2>1, PrefixExtend
  <2>5. offset + sent' = g + n
    BY <1>1, <1>2, <1>4
  <2>. QED
    BY <2>2, <2>3, <2>4, <2>5, Zenon
<1>6. TypeOK'
  BY <1>1, <1>2, <1>3 DEF TypeOK
<1>7. RequestInv'
  BY DEF RequestInv
<1>8. DataInv'
  <2>1. ReadLength' = ReadLength
    BY DEF ReadLength
  <2>2. Prefix(offset + sent)' = Prefix(offset + sent')
    BY DEF Prefix, ReadStart
  <2>. QED
    BY <1>5, <2>1, <2>2 DEF DataInv
<1>9. TransferInv'
  BY <1>1, <1>2, <1>3 DEF TransferInv
<1>10. AnswerInv' /\ InPlace' /\ EndComplete' /\ NoSpuriousFailure'
  BY DEF AnswerInv, InPlace, EndComplete, NoSpuriousFailure
<1>. QED
  BY <1>6, <1>7, <1>8, <1>9, <1>10

\* A complete transfer leaves the plan of the rest of the data.
LEMMA AckStep == IInv /\ Acknowledged => IInv'
<1>. SUFFICES ASSUME IInv, Acknowledged PROVE IInv'
  OBVIOUS
<1>. USE DEF IInv, Acknowledged
<1>0. UNCHANGED <<request, refused, dpos, dleft, piece, ram>>
  BY DEF devVars
<1>1. /\ length \in Nat /\ offset \in Nat /\ sent \in Nat /\ offset < length
      /\ WriteLength \in 1 .. MaxTransfer /\ offset + WriteLength <= length
      /\ CeilDiv(length - (offset + WriteLength), MaxTransfer) = transferCount - 1
  BY WriteLengthType DEF TypeOK, DataInv
<1>2. sent = WriteLength
  BY <1>1 DEF TransferInv
<1>3. transferCount - 1 \in Nat
  <2>1. PICK a \in Nat : a = length - (offset + WriteLength)
    BY <1>1
  <2>. QED
    BY <1>1, <2>1, CeilNat
<1>4. TypeOK'
  BY <1>0, <1>1, <1>3 DEF TypeOK
<1>5. RequestInv'
  BY <1>0 DEF RequestInv
<1>6. DataInv'
  <2>1. ReadLength' = ReadLength
    BY DEF ReadLength
  <2>2. Prefix(offset)' = Prefix(offset + sent)
    BY <1>2 DEF Prefix, ReadStart
  <2>3. ASSUME offset + WriteLength < length PROVE (offset + WriteLength) % AmlsBlock = 0
    <3>1. WriteLength = MaxTransfer
      BY <1>1, <2>3, WriteLengthType
    <3>2. offset % AmlsBlock = 0
      BY <1>1 DEF DataInv
    <3>. QED
      BY <1>1, <3>1, <3>2, WholeBlocks
  <2>. QED
    BY <1>0, <1>1, <2>1, <2>2, <2>3 DEF DataInv
<1>7. TransferInv' /\ AnswerInv'
  BY <1>0 DEF TransferInv, AnswerInv
<1>8. InPlace' /\ EndComplete' /\ NoSpuriousFailure'
  BY <1>0 DEF InPlace, EndComplete, NoSpuriousFailure
<1>. QED
  BY <1>4, <1>5, <1>6, <1>7, <1>8

\* A piece BL2 can use is the whole prefix it asked for, and its first byte is
\* one it missed.
LEMMA UsablePiece ==
  ASSUME IInv, pc = "transfer"
  PROVE /\ \A x \in piece : request.offset + x[1] = x[2]
        /\ Usable => \E x \in piece : request.offset + x[1] = request.offset
        /\ request \in [length : 1 .. MaxRequest, offset : 0 .. BootLength - 1]
<1>1. request \in [length : 1 .. MaxRequest, offset : 0 .. BootLength - 1]
      /\ prev = request
  BY DEF IInv, RequestInv
<1>2. piece = Prefix(offset) /\ offset \in Nat /\ request.offset \in Int
  BY <1>1 DEF IInv, DataInv, TypeOK
<1>3. \A x \in piece : request.offset + x[1] = x[2]
  BY <1>1, <1>2 DEF Prefix, ReadStart
<1>4. ASSUME Usable PROVE \E x \in piece : request.offset + x[1] = request.offset
  <2>1. 0 \in 0 .. request.length - 1
    BY <1>1
  <2>2. PICK x \in piece : x[1] = 0
    BY <1>4, <2>1 DEF Usable
  <2>. QED
    BY <1>2, <2>2
<1>. QED
  BY <1>1, <1>3, <1>4

\* BL2 accepts a piece only with every byte at its place, and then no longer
\* misses its first one.
LEMMA AmlsStep == IInv /\ SendAmls => IInv'
<1>. SUFFICES ASSUME IInv, SendAmls PROVE IInv'
  OBVIOUS
<1>. USE DEF IInv, SendAmls
<1>0. UNCHANGED <<tool, imageLength, prev, length, transferCount, offset, sent,
                  blockCount, request, dpos, dleft, piece>>
      /\ pc = "transfer" /\ pc' = "get" /\ seq < SeqLimit /\ seq' = seq + 1
  OBVIOUS
<1>1. /\ \A x \in piece : request.offset + x[1] = x[2]
      /\ Usable => \E x \in piece : request.offset + x[1] = request.offset
      /\ request \in [length : 1 .. MaxRequest, offset : 0 .. BootLength - 1]
  BY <1>0, UsablePiece
<1>2. \/ /\ Usable /\ refused' = FALSE /\ UNCHANGED faults
         /\ ram' = ram \cup {<<request.offset + x[1], x[2]>> : x \in piece}
      \/ /\ refused' = TRUE /\ ram' = ram /\ faults' \in 0 .. MaxFaults
  BY DEF Fault, TypeOK
<1>3. TypeOK'
  <2>1. refused' \in BOOLEAN /\ faults' \in 0 .. MaxFaults
    BY <1>2 DEF TypeOK
  <2>2. seq' \in 0 .. SeqLimit
    BY <1>0 DEF TypeOK
  <2>. QED
    BY <1>0, <2>1, <2>2 DEF TypeOK
<1>4. RequestInv' /\ DataInv' /\ TransferInv'
  BY <1>0, <1>1 DEF RequestInv, DataInv, TransferInv
<1>5. AnswerInv'
  <2>. SUFFICES ASSUME ~refused' PROVE request.offset \notin Missing'
    BY <1>0 DEF AnswerInv
  <2>1. PICK x \in piece : request.offset + x[1] = request.offset
    BY <1>1, <1>2
  <2>2. <<request.offset + x[1], x[2]>> \in ram'
    BY <1>2, <2>1
  <2>. QED
    BY <2>1, <2>2 DEF Missing
<1>6. InPlace'
  BY <1>1, <1>2 DEF InPlace
<1>7. EndComplete' /\ NoSpuriousFailure'
  BY <1>0 DEF EndComplete, NoSpuriousFailure
<1>. QED
  BY <1>3, <1>4, <1>5, <1>6, <1>7

\* The checksum raises on a piece of 4k+1 bytes, and such a piece was asked for
\* when the image is long enough.
LEMMA ChecksumStep == IInv /\ ChecksumRaises => IInv'
<1>. SUFFICES ASSUME IInv, ChecksumRaises PROVE IInv'
  OBVIOUS
<1>. USE DEF IInv, ChecksumRaises
<1>0. UNCHANGED <<tool, imageLength, seq, prev, length, transferCount, offset,
                  sent, blockCount, request, refused, dpos, dleft, piece, ram, faults>>
      /\ pc = "transfer" /\ pc' = "failed" /\ length % 4 = 1
  BY DEF devVars, SumRaises
<1>1. imageLength >= BootLength => request.length = length
  <2>1. /\ request \in [length : 1 .. MaxRequest, offset : 0 .. BootLength - 1]
        /\ request.offset + request.length <= BootLength
        /\ prev = request /\ length = ReadLength /\ imageLength \in Nat
    BY <1>0 DEF RequestInv, DataInv, TypeOK
  <2>2. request.offset \in Nat /\ request.length \in Nat /\ request.length >= 1
    BY <2>1
  <2>. QED
    BY <2>1, <2>2 DEF ReadLength
<1>2. TypeOK'
  BY <1>0 DEF TypeOK, Ended
<1>3. RequestInv' /\ DataInv' /\ TransferInv' /\ AnswerInv'
  BY <1>0 DEF RequestInv, DataInv, TransferInv, AnswerInv
<1>4. InPlace' /\ EndComplete' /\ NoSpuriousFailure'
  BY <1>0, <1>1 DEF InPlace, EndComplete, NoSpuriousFailure
<1>. QED
  BY <1>2, <1>3, <1>4

\* The sequence number does not fit when it is used up.
LEMMA SeqStep == IInv /\ SeqTooLarge => IInv'
<1>. SUFFICES ASSUME IInv, SeqTooLarge PROVE IInv'
  OBVIOUS
<1>. USE DEF IInv, SeqTooLarge
<1>0. UNCHANGED <<tool, imageLength, seq, prev, length, transferCount, offset,
                  sent, blockCount, request, refused, dpos, dleft, piece, ram, faults>>
      /\ pc = "transfer" /\ pc' = "failed" /\ seq >= SeqLimit
  BY DEF devVars
<1>1. TypeOK' /\ seq = SeqLimit
  BY <1>0 DEF TypeOK, Ended
<1>2. RequestInv' /\ DataInv' /\ TransferInv' /\ AnswerInv'
  BY <1>0 DEF RequestInv, DataInv, TransferInv, AnswerInv
<1>3. InPlace' /\ EndComplete' /\ NoSpuriousFailure'
  BY <1>0, <1>1 DEF InPlace, EndComplete, NoSpuriousFailure
<1>. QED
  BY <1>1, <1>2, <1>3

\* BL2 never waits for another count than the host sends: without a fault no
\* transfer times out.
LEMMA UsbStep == IInv /\ UsbError => IInv'
<1>. SUFFICES ASSUME IInv, UsbError PROVE IInv'
  OBVIOUS
<1>. USE DEF IInv, UsbError
<1>0. UNCHANGED <<tool, imageLength, seq, prev, length, transferCount, offset,
                  sent, blockCount, request, refused, dpos, dleft, piece, ram>>
      /\ pc' = "failed"
  BY DEF devVars
<1>1. pc \in {"get", "transfer", "block"}
  OBVIOUS
<1>2. ~(pc = "block" /\ IF blockCount > 0 THEN dleft < PacketLength ELSE dleft > 0)
  <2>. SUFFICES ASSUME pc = "block",
                       IF blockCount > 0 THEN dleft < PacketLength ELSE dleft > 0
                PROVE FALSE
    OBVIOUS
  <2>1. CASE blockCount > 0
    <3>1. dleft >= PacketLength /\ PacketLength \in Nat /\ dleft \in Nat
      BY <2>1, PacketType DEF TypeOK
    <3>. QED
      BY <2>1, <3>1
  <2>2. CASE ~(blockCount > 0)
    <3>1. PICK a \in Nat : a = WriteLength - sent
      BY WriteLengthType DEF TypeOK, DataInv, TransferInv
    <3>2. dleft = a /\ CeilDiv(a, BlockLength) = 0
      BY <2>2, <3>1 DEF TransferInv, TypeOK
    <3>. QED
      BY <2>2, <3>2, CeilNat
  <2>. QED
    BY <2>1, <2>2
<1>3. faults < MaxFaults /\ faults' = faults + 1
  BY <1>2 DEF Fault
<1>4. TypeOK' /\ faults' # 0
  BY <1>0, <1>3 DEF TypeOK, Ended
<1>5. RequestInv' /\ DataInv' /\ TransferInv' /\ AnswerInv'
  BY <1>0, <1>1 DEF RequestInv, DataInv, TransferInv, AnswerInv
<1>6. InPlace' /\ EndComplete' /\ NoSpuriousFailure'
  BY <1>0, <1>4 DEF InPlace, EndComplete, NoSpuriousFailure
<1>. QED
  BY <1>4, <1>5, <1>6

\* A step that changes nothing keeps the invariant.
LEMMA StutterStep == IInv /\ UNCHANGED vars => IInv'
<1>. SUFFICES ASSUME IInv, UNCHANGED vars PROVE IInv'
  OBVIOUS
<1>1. UNCHANGED <<tool, imageLength, pc, seq, prev, length, transferCount, offset,
                  sent, blockCount, request, refused, dpos, dleft, piece, ram, faults>>
  BY DEF vars, hostVars, devVars
<1>2. ReadLength' = ReadLength /\ WriteLength' = WriteLength /\ Missing' = Missing
  BY <1>1 DEF ReadLength, WriteLength, Missing
<1>3. Prefix(offset)' = Prefix(offset) /\ Prefix(offset + sent)' = Prefix(offset + sent)
  BY <1>1 DEF Prefix, ReadStart
<1>4. TypeOK' /\ RequestInv' /\ DataInv'
  BY <1>1, <1>2, <1>3 DEF IInv, TypeOK, RequestInv, DataInv
<1>5. TransferInv' /\ AnswerInv'
  BY <1>1, <1>2 DEF IInv, TransferInv, AnswerInv
<1>6. InPlace' /\ EndComplete' /\ NoSpuriousFailure'
  BY <1>1, <1>2 DEF IInv, InPlace, EndComplete, NoSpuriousFailure
<1>. QED
  BY <1>4, <1>5, <1>6 DEF IInv

\* The piece the host closes with its checksum is the whole request when the
\* image holds it: BL2 refuses nothing but damaged data.
LEMMA ClosedIsUsable ==
  ASSUME IInv, pc = "transfer", transferCount = 0, Places(request) \subseteq 0 .. imageLength - 1
  PROVE Usable
<1>1. request \in [length : 1 .. MaxRequest, offset : 0 .. BootLength - 1]
      /\ prev = request /\ imageLength \in Nat
  BY DEF IInv, RequestInv, TypeOK
<1>2. request.offset + request.length <= imageLength
  <2>1. request.offset + request.length - 1 \in Places(request)
    BY <1>1 DEF Places
  <2>. QED
    BY <1>1, <2>1
<1>3. ReadLength = request.length
  BY <1>1, <1>2 DEF ReadLength
<1>4. offset = length /\ length = request.length
  <2>1. PICK a \in Nat : a = length - offset
    BY DEF IInv, TypeOK
  <2>2. CeilDiv(a, MaxTransfer) = 0
    BY <2>1 DEF IInv, DataInv
  <2>3. a = 0
    BY <2>2, CeilNat
  <2>. QED
    BY <1>3, <2>1, <2>3 DEF IInv, TypeOK, DataInv
<1>5. piece = {<<k, ReadStart + k>> : k \in 0 .. length - 1}
  BY <1>4 DEF IInv, DataInv, Prefix
<1>8. ASSUME NEW k \in 0 .. length - 1
      PROVE \E x \in piece : x[1] = k /\ x[2] = ReadStart + k
  <2>1. <<k, ReadStart + k>> \in piece
    BY <1>5
  <2>. QED
    BY <2>1
<1>6. {x[1] : x \in piece} = 0 .. length - 1
  <2>1. \A x \in piece : x[1] \in 0 .. length - 1
    BY <1>5
  <2>2. \A k \in 0 .. length - 1 : \E x \in piece : k = x[1]
    BY <1>8
  <2>. QED
    BY <2>1, <2>2
<1>7. {x[2] : x \in piece} = {ReadStart + k : k \in 0 .. length - 1}
  <2>1. \A x \in piece : \E k \in 0 .. length - 1 : x[2] = ReadStart + k
    BY <1>5
  <2>2. \A k \in 0 .. length - 1 : \E x \in piece : ReadStart + k = x[2]
    BY <1>8
  <2>. QED
    BY <2>1, <2>2
<1>. QED
  BY <1>4, <1>6, <1>7 DEF Usable, Bytes, DataSum

----------------------------------------------------------------------------
(* The theorems. *)

\* Host and BL2 agree on what is planned, expected and held at every moment of
\* an AMLC boot.
THEOREM Invariance == Spec => []IInv
<1>1. IInv /\ [Next]_vars => IInv'
  BY GetStep, ReadStep, StartStep, SendStep, AckStep, AmlsStep, ChecksumStep, SeqStep, UsbStep,
     StutterStep DEF Next
<1>. QED
  BY InitIInv, <1>1, PTL DEF Spec

\* Every variable of an AMLC boot stays in its type.
THEOREM TypeCorrect == Spec => []TypeOK
<1>1. IInv => TypeOK
  BY DEF IInv
<1>. QED
  BY Invariance, <1>1, PTL

\* Every byte BL2 accepts is at its own place, however getBootAMLC splits the
\* image and writeAMLCData splits the pieces.
THEOREM AlwaysInPlace == Spec => []InPlace
<1>1. IInv => InPlace
  BY DEF IInv
<1>. QED
  BY Invariance, <1>1, PTL

\* A host that stops at a repeated request has given BL2 everything, unless BL2
\* refused a piece.
THEOREM EndIsComplete == Spec => []EndComplete
<1>1. IInv => EndComplete
  BY DEF IInv
<1>. QED
  BY Invariance, <1>1, PTL

\* Without faults and with a long enough image the boot fails only for want of
\* sequence numbers, or because BL2 asked for 4k+1 bytes, which _amlsChecksum
\* cannot sum: no split of a piece ends in a transfer that times out.
THEOREM FailsForSeqOrSum == Spec => []NoSpuriousFailure
<1>1. IInv => NoSpuriousFailure
  BY DEF IInv
<1>. QED
  BY Invariance, <1>1, PTL

\* The piece closed by its checksum can be used when it lies inside the image.
ClosedUsable ==
    pc = "transfer" /\ transferCount = 0 /\ Places(request) \subseteq 0 .. imageLength - 1
        => Usable

\* BL2 gets a usable answer to every request the image can serve: no split into
\* transfers and packets loses, repeats or displaces a byte (its checksum may
\* still raise, see FailsForSeqOrSum).
THEOREM AnswersUsable == Spec => []ClosedUsable
<1>1. IInv => ClosedUsable
  BY ClosedIsUsable DEF ClosedUsable
<1>. QED
  BY Invariance, <1>1, PTL
=============================================================================
