------------------------- MODULE LargeMemoryProofs -------------------------
(***************************************************************************)
(* Proofs about LargeMemory for every MAX_LARGE_BLOCK_COUNT, length and    *)
(* block length.                                                           *)
(***************************************************************************)
EXTENDS LargeMemory, TLAPS

----------------------------------------------------------------------------
(* Lemmas on \div, % and CeilDiv. *)

\* Euclidean division: quotient and remainder recompose the dividend.
LEMMA DivMod == ASSUME NEW a \in Nat, NEW b \in Nat \ {0}
  PROVE /\ a = b * (a \div b) + (a % b)
        /\ a \div b \in Nat
        /\ a % b \in 0 .. b-1
OBVIOUS

\* Quotient and remainder are determined by the decomposition.
LEMMA DivUnique ==
  ASSUME NEW b \in Nat \ {0}, NEW q \in Nat, NEW r \in 0 .. b-1, NEW a \in Nat,
         a = b*q + r
  PROVE a \div b = q /\ a % b = r
<1>1. a \div b = q
  OBVIOUS
<1>2. a = b * (a \div b) + (a % b) /\ a % b \in 0 .. b - 1
  OBVIOUS
<1>4. QED
  BY <1>1, <1>2

\* Adding n whole blocks leaves the remainder and adds n to the quotient.
LEMMA ModShift == ASSUME NEW b \in Nat \ {0}, NEW n \in Nat, NEW a \in Nat
  PROVE /\ (n * b + a) % b = a % b
        /\ (n * b + a) \div b = n + (a \div b)
<1>1. PICK q \in Nat, r \in 0 .. b - 1 : a = b*q + r /\ q = a \div b /\ r = a % b
  BY DivMod
<1>2. PICK c \in Nat : c = n * b + a
  OBVIOUS
<1>3. PICK p \in Nat : p = n + q
  OBVIOUS
<1>4. c = b * p + r
  BY <1>1, <1>2, <1>3
<1>5. c \div b = p /\ c % b = r
  BY <1>4, DivUnique
<1>6. QED
  BY <1>1, <1>2, <1>3, <1>5

\* Adding n whole blocks adds n to the number of blocks.
LEMMA CeilShift == ASSUME NEW b \in Nat \ {0}, NEW n \in Nat, NEW a \in Nat
  PROVE CeilDiv(n * b + a, b) = n + CeilDiv(a, b)
<1>1. PICK c \in Nat : c = n * b + a
  OBVIOUS
<1>2. c % b = a % b /\ c \div b = n + (a \div b)
  BY <1>1, ModShift
<1>3. PICK q \in Nat, r \in 0 .. b - 1 : q = a \div b /\ r = a % b
  BY DivMod
<1>4. CeilDiv(c, b) = n + CeilDiv(a, b)
  BY <1>2, <1>3 DEF CeilDiv
<1>. QED
  BY <1>1, <1>4

\* No bytes need no block, up to one block of bytes needs exactly one.
LEMMA CeilNat == ASSUME NEW b \in Nat \ {0}, NEW a \in Nat
  PROVE /\ CeilDiv(a, b) \in Nat
        /\ CeilDiv(a, b) = 0 <=> a = 0
        /\ 0 < a /\ a <= b => CeilDiv(a, b) = 1
<1>1. CeilDiv(a, b) \in Nat
  BY DivMod DEF CeilDiv
<1>2. CeilDiv(a, b) = 0 <=> a = 0
  <2>1. PICK q \in Nat, r \in 0 .. b - 1 :
           a = b * q + r /\ q = a \div b /\ r = a % b
    BY DivMod
  <2>2. CeilDiv(a, b) = 0 <=> q = 0 /\ r = 0
    BY <2>1 DEF CeilDiv
  <2>3. q > 0 => b * q > 0
    OBVIOUS
  <2>. QED
    BY <2>1, <2>2, <2>3
<1>3. ASSUME 0 < a , a < b PROVE CeilDiv(a, b) = 1
  <2>1. a \div b = 0 /\ a % b = a
    <3>1. b * 0 = 0
      OBVIOUS
    <3>2. a \in 0 .. b - 1 /\ a = b * 0 + a
      BY <1>3, <3>1
    <3>. QED
      BY <3>2, DivUnique
  <2>. QED
    BY <2>1, <1>3 DEF CeilDiv
<1>4. CeilDiv(b, b) = 1
  <2>1. b = 1 * b + 0
    OBVIOUS
  <2>2. CeilDiv(1 * b + 0, b) = 1 + CeilDiv(0, b)
    BY CeilShift
  <2>3. CeilDiv(0, b) = 0
    BY DivMod DEF CeilDiv
  <2>. QED
    BY <2>1, <2>2, <2>3
<1>. QED
  BY <1>1, <1>2, <1>3, <1>4

\* At most m blocks of bytes need at most m blocks.
LEMMA CeilBound == ASSUME NEW b \in Nat \ {0}, NEW m \in Nat, NEW a \in Nat, a <= m * b
  PROVE CeilDiv(a, b) <= m
<1>1. a = b * (a \div b) + (a % b) /\ a \div b \in Nat /\ a % b \in 0 .. b-1
  BY DivMod
<1>2. CASE a % b = 0
  <2>1. b * (a \div b) <= m * b
    BY <1>1, <1>2
  <2>. QED
    BY <1>1, <1>2, <2>1 DEF CeilDiv
<1>3. CASE a % b > 0
  <2>1. b * (a \div b) < m * b
    BY <1>1, <1>3
  <2>2. a \div b < m
    BY <1>1, <2>1
  <2>. QED
    BY <1>1, <1>3, <2>2 DEF CeilDiv
<1>. QED
  BY <1>1, <1>2, <1>3

USE DEF Calls

----------------------------------------------------------------------------
(* Arithmetic of the transfer plan. *)

\* A full chunk is a positive number of bytes and a whole number of blocks.
LEMMA ChunkSize ==
  ASSUME NEW b \in Nat \ {0}
  PROVE /\ MaxBlocks * b \in Nat \ {0}
        /\ b <= MaxBlocks * b
        /\ (MaxBlocks * b) % b = 0
        /\ CeilDiv(MaxBlocks * b, b) = MaxBlocks
<1>. USE MaxBlocksAssumption
<1>1. MaxBlocks * b \in Nat \ {0} /\ b <= MaxBlocks * b
  OBVIOUS
<1>2. MaxBlocks * b = MaxBlocks * b + 0 /\ 0 \in Nat
  BY <1>1
<1>3. 0 % b = 0 /\ CeilDiv(0, b) = 0
  BY CeilNat
<1>4. (MaxBlocks * b) % b = 0
  <2>1. (MaxBlocks * b + 0) % b = 0 % b
    BY ModShift
  <2>. QED
    BY <2>1, <1>2, <1>3
<1>5. CeilDiv(MaxBlocks * b, b) = MaxBlocks
  BY <1>2, <1>3, CeilShift
<1>. QED
  BY <1>1, <1>4, <1>5

\* What is left of a buffer needs no transfer exactly when it is empty.
LEMMA TransfersNat ==
  ASSUME NEW b \in Nat \ {0}, NEW a \in Nat
  PROVE /\ Transfers(a, b) \in Nat
        /\ Transfers(a, b) = 0 <=> a = 0
<1>. USE MaxBlocksAssumption
<1>1. PICK c \in Nat : c = CeilDiv(a, b) /\ (c = 0 <=> a = 0)
  BY CeilNat
<1>2. CeilDiv(c, MaxBlocks) \in Nat /\ (CeilDiv(c, MaxBlocks) = 0 <=> c = 0)
  BY CeilNat
<1>. QED
  BY <1>1, <1>2 DEF Transfers

\* Up to one chunk needs at most one transfer.
LEMMA TransfersOne ==
  ASSUME NEW b \in Nat \ {0}, NEW a \in Nat, a <= MaxBlocks * b, a > 0
  PROVE Transfers(a, b) = 1
<1>. USE MaxBlocksAssumption
<1>1. PICK c \in Nat : c = CeilDiv(a, b) /\ (c = 0 <=> a = 0)
  BY CeilNat
<1>2. c <= MaxBlocks
  BY <1>1, CeilBound
<1>3. CeilDiv(c, MaxBlocks) = 1
  BY <1>1, <1>2, CeilNat
<1>. QED
  BY <1>1, <1>3 DEF Transfers

\* A full chunk more needs one transfer more.
LEMMA TransfersShift ==
  ASSUME NEW b \in Nat \ {0}, NEW a \in Nat
  PROVE Transfers(MaxBlocks * b + a, b) = 1 + Transfers(a, b)
<1>. USE MaxBlocksAssumption
<1>1. PICK c \in Nat : c = CeilDiv(a, b)
  BY CeilNat
<1>2. CeilDiv(MaxBlocks * b + a, b) = 1 * MaxBlocks + c
  BY <1>1, CeilShift
<1>3. CeilDiv(1 * MaxBlocks + c, MaxBlocks) = 1 + CeilDiv(c, MaxBlocks)
  BY CeilShift
<1>. QED
  BY <1>1, <1>2, <1>3 DEF Transfers

\* Past a chunk boundary a length keeps its remainder modulo the block length,
\* and the next boundary is one chunk further.
LEMMA BoundaryMod ==
  ASSUME NEW b \in Nat \ {0}, NEW o \in Nat, NEW a \in Nat,
         o % (MaxBlocks * b) = 0
  PROVE /\ (o + a) % b = a % b
        /\ (o + MaxBlocks * b) % (MaxBlocks * b) = 0
<1>. USE MaxBlocksAssumption
<1>1. PICK C \in Nat \ {0} : C = MaxBlocks * b
  BY ChunkSize
<1>2. PICK n \in Nat : o = C * n
  <2>1. o % C = 0
    BY <1>1
  <2>2. o = C * (o \div C) + (o % C) /\ o \div C \in Nat
    BY DivMod
  <2>. QED
    BY <2>1, <2>2
<1>3. PICK m \in Nat : m = n * MaxBlocks
  OBVIOUS
<1>4. o = m * b
  BY <1>1, <1>2, <1>3
<1>5. (m * b + a) % b = a % b
  BY ModShift
<1>6. PICK d \in Nat, k \in Nat : d = o + C /\ k = n + 1
  OBVIOUS
<1>7. (o + C) % C = 0
  <2>1. 0 \in 0 .. C - 1 /\ d = C * k + 0
    BY <1>2, <1>6
  <2>2. d % C = 0
    BY <2>1, DivUnique
  <2>. QED
    BY <2>2, <1>6
<1>. QED
  BY <1>1, <1>4, <1>5, <1>7

----------------------------------------------------------------------------
(* The inductive invariant. *)

\* Arguments of every call have their types.
LEMMA CallType ==
  ASSUME call \in Calls
  PROVE /\ call.len \in Nat
        /\ call.block \in Nat \ {0}
        /\ call.pad \in BOOLEAN
        /\ MaxBlocks * call.block \in Nat \ {0}
<1>1. call.len \in Nat /\ call.block \in Nat \ {0} /\ call.pad \in BOOLEAN
  BY LengthsAssumption, BlockLengthsAssumption
<1>. QED
  BY <1>1, ChunkSize

\* The next chunk is full and lies inside the buffer, or it is the rest.
LEMMA ChunkCases ==
  ASSUME TypeOK, RestInv
  PROVE LET C == MaxBlocks * call.block
            rest == call.len - offset
        IN  /\ rest \in Nat
            /\ ChunkLength \in Nat
            /\ \/ ChunkLength = C /\ rest - C \in Nat
               \/ ChunkLength = rest /\ rest < C
<1>. DEFINE C == MaxBlocks * call.block
<1>1. call.len \in Nat /\ C \in Nat \ {0} /\ offset \in Nat /\ offset <= call.len
  BY CallType DEF TypeOK, RestInv
<1>2. ChunkLength = IF offset + C > call.len THEN call.len - offset ELSE C
  BY DEF ChunkLength
<1>. HIDE DEF C
<1>3. call.len - offset \in Nat
  BY <1>1
<1>4. CASE offset + C > call.len
  <2>1. ChunkLength = call.len - offset /\ call.len - offset < C
    BY <1>1, <1>2, <1>4
  <2>. QED
    BY <2>1, <1>3 DEF C
<1>5. CASE ~(offset + C > call.len)
  <2>1. ChunkLength = C /\ call.len - offset - C \in Nat
    BY <1>1, <1>2, <1>5
  <2>. QED
    BY <2>1, <1>3, <1>1 DEF C
<1>. QED
  BY <1>4, <1>5

\* A chunk made longer by its remainder is still a natural number of bytes.
LEMMA PaddedNat ==
  ASSUME call \in Calls, NEW n \in Nat
  PROVE Padded(n) \in Nat /\ (~call.pad => Padded(n) = n)
<1>1. n % call.block \in Nat
  BY CallType, DivMod
<1>. QED
  BY <1>1 DEF Padded

\* Moving n more bytes at the common position extends the identity by n.
LEMMA IdentityExtend ==
  ASSUME NEW g \in Nat, NEW n \in Nat
  PROVE Identity(g) \cup {<<g + k, g + k>> : k \in 0 .. n - 1} = Identity(g + n)
<1>1. ASSUME NEW i \in 0 .. g + n - 1, i >= g
      PROVE \E k \in 0 .. n - 1 : <<i, i>> = <<g + k, g + k>>
  <2>1. i - g \in 0 .. n - 1 /\ g + (i - g) = i
    BY <1>1
  <2>. QED
    BY <2>1
<1>2. \A k \in 0 .. n - 1 : g + k \in 0 .. g + n - 1
  OBVIOUS
<1>3. \A i \in 0 .. g - 1 : i \in 0 .. g + n - 1
  OBVIOUS
<1>4. \A i \in 0 .. g + n - 1 : i \in 0 .. g - 1 \/ i >= g
  OBVIOUS
<1>. QED
  BY <1>1, <1>2, <1>3, <1>4 DEF Identity

\* The plan made at the call satisfies the invariant.
LEMMA InitIInv == Init => IInv
<1>. SUFFICES ASSUME Init PROVE IInv
  OBVIOUS
<1>. USE DEF Init
<1>1. Transfers(call.len, call.block) \in Nat
      /\ (Transfers(call.len, call.block) = 0 <=> call.len = 0)
  BY CallType, TransfersNat
<1>2. TypeOK
  BY <1>1, MaxBlocksAssumption DEF TypeOK, States
<1>3. PrefixInPlace
  BY DEF PrefixInPlace, Identity
<1>4. RestInv
  <2>1. 0 % (MaxBlocks * call.block) = 0
    BY CallType, DivMod
  <2>. QED
    BY <1>1, <2>1, CallType DEF RestInv
<1>5. BetweenInv
  <2>1. 0 % call.block = 0
    BY CallType, CeilNat
  <2>2. Padded(0) = 0
    BY <2>1 DEF Padded
  <2>. QED
    BY <1>1, <2>2, CallType DEF BetweenInv
<1>6. TransferInv
  BY DEF TransferInv
<1>. QED
  BY <1>2, <1>3, <1>4, <1>5, <1>6 DEF IInv

----------------------------------------------------------------------------
(* One lemma per action. *)

\* The control transfer keeps the invariant: the block count covers the
\* announced size, and fits its field when nothing was padded.
LEMMA AnnounceStep == IInv /\ Announce => IInv'
<1>. SUFFICES ASSUME IInv, Announce PROVE IInv'
  OBVIOUS
<1>. USE DEF IInv, Announce
<1>1. call' = call /\ call.len \in Nat /\ call.block \in Nat \ {0}
  BY CallType DEF TypeOK
<1>2. ChunkLength \in Nat /\ ChunkLength' = ChunkLength
  BY ChunkCases DEF ChunkLength
<1>3. Padded(ChunkLength) \in Nat /\ (~call.pad => Padded(ChunkLength) = ChunkLength)
  BY <1>2, PaddedNat DEF TypeOK
<1>4. PICK p \in Nat : p = Padded(ChunkLength)
  BY <1>3
<1>5. CeilDiv(p, call.block) \in Nat
  BY <1>1, CeilNat
<1>6. Word(CeilDiv(p, call.block)) \in 0 .. MaxBlocks
  <2>1. MaxBlocks + 1 \in Nat \ {0}
    BY MaxBlocksAssumption
  <2>2. CeilDiv(p, call.block) % (MaxBlocks + 1) \in 0 .. (MaxBlocks + 1) - 1
    BY <1>5, <2>1, DivMod
  <2>. QED
    BY <2>2, MaxBlocksAssumption DEF Word
<1>7. ~call.pad => Word(CeilDiv(p, call.block)) = CeilDiv(p, call.block)
  <2>. SUFFICES ASSUME ~call.pad PROVE Word(CeilDiv(p, call.block)) = CeilDiv(p, call.block)
    OBVIOUS
  <2>1. p <= MaxBlocks * call.block
    BY <1>3, <1>4, ChunkCases, CallType DEF TypeOK
  <2>2. CeilDiv(p, call.block) <= MaxBlocks
    BY <1>1, <2>1, MaxBlocksAssumption, CeilBound
  <2>3. PICK c \in Nat : c = CeilDiv(p, call.block)
    BY <1>5
  <2>4. c = (MaxBlocks + 1) * 0 + c /\ c \in 0 .. (MaxBlocks + 1) - 1
    BY <2>2, <2>3, MaxBlocksAssumption
  <2>5. MaxBlocks + 1 \in Nat \ {0}
    BY MaxBlocksAssumption
  <2>6. c % (MaxBlocks + 1) = c
    BY <2>4, <2>5, DivUnique
  <2>. QED
    BY <2>3, <2>6 DEF Word
<1>8. TypeOK'
  BY <1>3, <1>4, <1>5, <1>6 DEF TypeOK, ChunkAddress, States
<1>9. PrefixInPlace'
  BY DEF PrefixInPlace, BetweenInv
<1>10. RestInv'
  BY DEF RestInv
<1>11. BetweenInv'
  BY DEF BetweenInv
<1>12. TransferInv'
  <2>1. Accepted' = Accepted
    BY <1>1, <1>2 DEF Accepted
  <2>2. Padded(ChunkLength)' = Padded(ChunkLength)
    BY <1>1, <1>2 DEF Padded
  <2>3. size' = p /\ blockCount' = CeilDiv(p, call.block)
        /\ devLeft' = Word(CeilDiv(p, call.block)) /\ sent' = 0
        /\ devPos' = offset /\ offset' = offset
        /\ got' = got /\ transferCount' = transferCount
    BY <1>4 DEF ChunkAddress
  <2>4. p - 0 = p /\ offset + 0 = offset
    BY DEF TypeOK
  <2>5. got = offset
    BY DEF BetweenInv
  <2>. QED
    BY <1>1, <1>4, <1>7, <2>1, <2>2, <2>3, <2>4, <2>5 DEF TransferInv
<1>. QED
  BY <1>8, <1>9, <1>10, <1>11, <1>12

\* A packet moves bytes from one common position of host and device to the
\* next and uses up exactly one block of the count.
LEMMA MoveBlockStep == IInv /\ MoveBlock => IInv'
<1>. SUFFICES ASSUME IInv, MoveBlock PROVE IInv'
  OBVIOUS
<1>. USE DEF IInv, MoveBlock
<1>1. call' = call /\ call.block \in Nat \ {0}
  BY CallType DEF TypeOK
<1>2. PICK n \in Nat : n = PacketLength /\ sent + n <= size
                      /\ (n = call.block \/ (n < call.block /\ n = size - sent))
  BY <1>1 DEF PacketLength, TypeOK, TransferInv
<1>3. blockCount - 1 = CeilDiv(size - (sent + n), call.block)
  <2>1. PICK left \in Nat : left = size - sent
    BY DEF TypeOK, TransferInv
  <2>2. CASE n = call.block
    <3>1. PICK r \in Nat : r = left - n
      BY <1>2, <2>1 DEF TypeOK
    <3>2. left = 1 * call.block + r
      BY <3>1, <2>1, <2>2, <1>1
    <3>3. CeilDiv(left, call.block) = 1 + CeilDiv(r, call.block)
      BY <1>1, <3>2, CeilShift
    <3>4. size - (sent + n) = r
      BY <2>1, <3>1, <1>2 DEF TypeOK
    <3>5. CeilDiv(r, call.block) \in Nat
      BY <1>1, CeilNat
    <3>. QED
      BY <2>1, <3>3, <3>4, <3>5 DEF TransferInv
  <2>3. CASE n < call.block /\ n = size - sent
    <3>1. blockCount = CeilDiv(left, call.block) /\ left > 0 /\ left <= call.block
      BY <1>1, <2>1, <2>3, CeilNat DEF TransferInv
    <3>2. CeilDiv(left, call.block) = 1 /\ CeilDiv(0, call.block) = 0
      BY <1>1, <3>1, CeilNat
    <3>3. size - (sent + n) = 0
      BY <1>2, <2>3 DEF TypeOK
    <3>. QED
      BY <3>1, <3>2, <3>3
  <2>. QED
    BY <1>2, <2>2, <2>3
<1>4. HostPos = got /\ devPos = got /\ got \in Nat
  BY DEF HostPos, TransferInv, TypeOK
<1>5. moved' = Identity(got + n)
  <2>1. moved' = Identity(got) \cup {<<got + k, got + k>> : k \in 0 .. n - 1}
    BY <1>2, <1>4 DEF PrefixInPlace
  <2>. QED
    BY <2>1, <1>4, IdentityExtend
<1>6. TypeOK'
  <2>1. Identity(got + n) \subseteq Nat \X Nat
    BY <1>4 DEF Identity
  <2>. QED
    BY <1>2, <1>5, <2>1, MaxBlocksAssumption DEF TypeOK
<1>7. PrefixInPlace'
  BY <1>2, <1>5 DEF PrefixInPlace, TypeOK
<1>8. RestInv'
  BY DEF RestInv
<1>9. BetweenInv'
  BY DEF BetweenInv
<1>10. TransferInv'
  <2>1. ChunkLength' = ChunkLength
    BY DEF ChunkLength
  <2>2. Padded(ChunkLength)' = Padded(ChunkLength) /\ Accepted' = Accepted
    BY <2>1 DEF Padded, Accepted
  <2>. QED
    BY <1>1, <1>2, <1>3, <2>2 DEF TransferInv, TypeOK
<1>. QED
  BY <1>6, <1>7, <1>8, <1>9, <1>10

\* Finishing a chunk leaves the plan of the rest of the buffer: one transfer
\* fewer, at a chunk boundary unless nothing is left.
LEMMA EndTransferStep == IInv /\ EndTransfer => IInv'
<1>. SUFFICES ASSUME IInv, EndTransfer PROVE IInv'
  OBVIOUS
<1>. USE DEF IInv, EndTransfer
<1>1. call' = call /\ call.len \in Nat /\ call.block \in Nat \ {0}
      /\ MaxBlocks * call.block \in Nat \ {0}
  BY CallType DEF TypeOK
<1>2. PICK C \in Nat \ {0} : C = MaxBlocks * call.block
  BY <1>1
<1>3. PICK rest \in Nat : rest = call.len - offset
  BY ChunkCases
<1>4. /\ ChunkLength \in Nat
      /\ \/ ChunkLength = C /\ rest - C \in Nat
         \/ ChunkLength = rest /\ rest < C
  BY <1>2, <1>3, ChunkCases
<1>5. transferCount = Transfers(rest, call.block) /\ rest > 0
  <2>1. transferCount = Transfers(rest, call.block) /\ transferCount > 0
    BY <1>3 DEF RestInv, TransferInv
  <2>. QED
    BY <1>1, <2>1, TransfersNat
<1>6. got = offset + size /\ size = Padded(ChunkLength) /\ (~call.pad => devLeft = 0)
  <2>1. PICK left \in Nat : left = size - sent
    BY DEF TypeOK, TransferInv
  <2>2. CeilDiv(left, call.block) = 0
    BY <2>1 DEF TransferInv
  <2>3. left = 0
    BY <1>1, <2>2, CeilNat
  <2>4. sent = size
    BY <2>1, <2>3 DEF TypeOK
  <2>. QED
    BY <2>4 DEF TransferInv
<1>7. /\ offset' \in Nat /\ offset' <= call.len
      /\ transferCount' \in Nat
      /\ transferCount' = Transfers(call.len - offset', call.block)
      /\ transferCount' > 0 => offset' % C = 0
      /\ got = IF transferCount' > 0 THEN offset' ELSE Padded(call.len)
  <2>0. offset \in Nat /\ offset % C = 0 /\ offset + rest = call.len
    BY <1>1, <1>2, <1>3 DEF RestInv, TransferInv, TypeOK
  <2>1. CASE ChunkLength = C /\ rest - C \in Nat
    <3>1. PICK r \in Nat : r = rest - C
      BY <2>1
    <3>2. rest = C + r /\ offset' = offset + C /\ call.len - offset' = r
      BY <2>0, <2>1, <3>1, <1>3
    <3>3. Transfers(rest, call.block) = 1 + Transfers(r, call.block)
          /\ Transfers(r, call.block) \in Nat
          /\ (Transfers(r, call.block) = 0 <=> r = 0)
      BY <1>1, <1>2, <3>2, TransfersShift, TransfersNat
    <3>4. transferCount' = Transfers(r, call.block)
      BY <1>5, <3>3 DEF TransfersLeft, TypeOK
    <3>5. (offset + C) % C = 0
      BY <1>1, <1>2, <2>0, BoundaryMod
    <3>6. C % call.block = 0
      BY <1>1, <1>2, ChunkSize
    <3>7. Padded(C) = C
      BY <3>6, <1>2 DEF Padded
    <3>8. got = offset + C
      BY <1>6, <2>1, <3>7
    <3>9. r = 0 => Padded(call.len) = offset + C
      <4>. SUFFICES ASSUME r = 0 PROVE Padded(call.len) = offset + C
        OBVIOUS
      <4>1. call.len = offset + C
        BY <2>0, <3>2
      <4>2. (offset + C) % call.block = 0
        BY <1>1, <1>2, <2>0, <3>6, BoundaryMod
      <4>. QED
        BY <4>1, <4>2, <2>0 DEF Padded
    <3>. QED
      BY <1>1, <1>2, <2>0, <3>2, <3>3, <3>4, <3>5, <3>8, <3>9
  <2>2. CASE ChunkLength = rest /\ rest < C
    <3>1. offset' = call.len /\ call.len - offset' = 0
      BY <1>1, <2>0, <2>2
    <3>2. Transfers(rest, call.block) = 1 /\ Transfers(0, call.block) = 0
      <4>1. rest <= MaxBlocks * call.block
        BY <1>2, <2>2
      <4>2. Transfers(rest, call.block) = 1
        BY <1>1, <1>5, <4>1, TransfersOne
      <4>3. Transfers(0, call.block) = 0
        BY <1>1, TransfersNat
      <4>. QED
        BY <4>2, <4>3
    <3>3. transferCount' = 0
      BY <1>5, <3>2 DEF TransfersLeft
    <3>4. (offset + rest) % call.block = rest % call.block
      <4>1. /\ call.block \in Nat \ {0} /\ offset \in Nat /\ rest \in Nat
            /\ offset % (MaxBlocks * call.block) = 0
        BY <1>1, <1>2, <2>0
      <4>. QED
        BY <4>1, BoundaryMod, Zenon
    <3>5. rest % call.block \in Nat
      BY <1>1, DivMod
    <3>6. offset + Padded(rest) = Padded(call.len)
      BY <2>0, <3>4, <3>5 DEF Padded
    <3>. QED
      BY <1>1, <1>6, <2>2, <3>1, <3>2, <3>3, <3>6
  <2>. QED
    BY <1>4, <2>1, <2>2
<1>8. TypeOK'
  BY <1>7 DEF TypeOK, States
<1>9. PrefixInPlace'
  <2>1. offset' <= got
    <3>1. size \in Nat /\ ChunkLength <= size
      <4>1. PICK n \in Nat : n = ChunkLength
        BY <1>4
      <4>2. n % call.block \in Nat
        BY <1>1, DivMod
      <4>. QED
        BY <1>6, <4>1, <4>2 DEF Padded, TypeOK
    <3>. QED
      BY <1>4, <1>6, <3>1 DEF TypeOK
  <2>. QED
    BY <1>7, <2>1 DEF PrefixInPlace
<1>10. RestInv'
  BY <1>1, <1>2, <1>7 DEF RestInv
<1>11. BetweenInv'
  <2>1. Padded(call.len)' = Padded(call.len)
    BY DEF Padded
  <2>. QED
    BY <1>6, <1>7, <2>1 DEF BetweenInv
<1>12. TransferInv'
  BY DEF TransferInv
<1>. QED
  BY <1>8, <1>9, <1>10, <1>11, <1>12

\* The three ways out of the call touch neither the plan nor the bytes.
LEMMA ExitStep == IInv /\ (Refuse \/ Return \/ UsbError) => IInv'
<1>. SUFFICES ASSUME IInv, Refuse \/ Return \/ UsbError PROVE IInv'
  OBVIOUS
<1>. USE DEF IInv, Refuse, Return, UsbError
<1>1. UNCHANGED <<call, transferCount, offset, size, blockCount, sent, got,
                  devPos, devLeft, moved>>
  OBVIOUS
<1>2. pc' \in {"refused", "done", "failed"}
  OBVIOUS
<1>3. TypeOK' /\ PrefixInPlace' /\ RestInv'
  BY <1>1, <1>2 DEF TypeOK, PrefixInPlace, RestInv, States
<1>4. Accepted' = Accepted /\ Padded(call.len)' = Padded(call.len)
  BY <1>1 DEF Accepted, ChunkLength, Padded
<1>5. BetweenInv'
  BY <1>1, <1>4 DEF BetweenInv, TypeOK
<1>6. TransferInv'
  BY <1>2 DEF TransferInv
<1>. QED
  BY <1>3, <1>5, <1>6

LEMMA StutterStep == IInv /\ UNCHANGED vars => IInv'
BY DEF IInv, TypeOK, PrefixInPlace, RestInv, BetweenInv, TransferInv, vars,
       hostVars, Accepted, ChunkLength, Padded

----------------------------------------------------------------------------
(* The theorems. *)

\* The invariant holds throughout every call, for every constant.
THEOREM Invariance == Spec => []IInv
<1>1. Init => IInv
  BY InitIInv
<1>2. IInv /\ [Next]_vars => IInv'
  BY AnnounceStep, MoveBlockStep, EndTransferStep, ExitStep, StutterStep
  DEF Next
<1>. QED
  BY <1>1, <1>2, PTL DEF Spec

\* The variables keep their types; in particular the device's count is
\* always a 16-bit number.
THEOREM TypeCorrect == Spec => []TypeOK
<1>1. IInv => TypeOK
  BY DEF IInv
<1>. QED
  BY <1>1, Invariance, PTL

\* writeLargeMemory and readLargeMemory never skip, repeat or displace a
\* byte, wherever they stop.
THEOREM PrefixAlways == Spec => []PrefixInPlace
<1>1. IInv => PrefixInPlace
  BY DEF IInv
<1>. QED
  BY <1>1, Invariance, PTL

\* A call that returns has moved the whole buffer, for every length, block
\* length and padding.
THEOREM DoneIsComplete == Spec => []DoneComplete
<1>1. IInv => DoneComplete
  BY DEF IInv, PrefixInPlace, BetweenInv, DoneComplete
<1>. QED
  BY <1>1, Invariance, PTL

\* A refused call has written every full chunk and nothing of the ragged one.
THEOREM RefusedIsAfterFullChunks == Spec => []RefusedAfterFullChunks
<1>1. ASSUME IInv PROVE RefusedAfterFullChunks
  <2>. SUFFICES ASSUME pc = "refused" PROVE RefusedAfterFullChunks
    BY DEF RefusedAfterFullChunks
  <2>. USE DEF IInv
  <2>1. /\ call.len \in Nat /\ call.block \in Nat \ {0} /\ offset \in Nat
        /\ MaxBlocks * call.block \in Nat \ {0}
    BY <1>1, CallType DEF TypeOK
  <2>2. /\ got = offset
        /\ offset % (MaxBlocks * call.block) = 0
        /\ ChunkLength % call.block # 0
    BY <1>1 DEF BetweenInv, RestInv, Accepted
  <2>3. ChunkLength = call.len - offset /\ call.len - offset < MaxBlocks * call.block
    BY <1>1, <2>1, <2>2, ChunkCases, ChunkSize
  <2>4. PICK rest \in Nat : rest = call.len - offset
    BY <1>1, ChunkCases
  <2>5. (offset + rest) % call.block = rest % call.block
    BY <2>1, <2>2, BoundaryMod
  <2>6. offset + rest = call.len
    BY <2>1, <2>4
  <2>. QED
    BY <1>1, <2>1, <2>2, <2>3, <2>4, <2>5, <2>6
    DEF RefusedAfterFullChunks, PrefixInPlace
<1>. QED
  BY <1>1, Invariance, PTL

\* Without appendZeros the 16-bit block count never wraps and the device is
\* idle between transfers: MAX_LARGE_BLOCK_COUNT = 65535 is small enough.
THEOREM UnpaddedCounts == Spec => []UnpaddedCountFits
<1>1. IInv => UnpaddedCountFits
  BY DEF IInv, TransferInv, BetweenInv, UnpaddedCountFits, CountFits
<1>. QED
  BY <1>1, Invariance, PTL
=============================================================================
