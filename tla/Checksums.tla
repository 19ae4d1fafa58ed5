----------------------------- MODULE Checksums -----------------------------
(***************************************************************************)
(* The three additive checksums: _amlsChecksum of pyamlboot.py, for the    *)
(* AMLS and for blocks of a download, _chksum of optimus.py, for U-Boot,   *)
(* and adnl_checksum of adnl.py.  Data is a sequence of bytes below Base.  *)
(***************************************************************************)
EXTENDS Integers, Sequences

CONSTANT Base               \* values of a byte, 256

ASSUME BaseAssumption == Base \in Nat \ {0, 1}

Modulus == Base * Base * Base * Base    \* uint32_max

\* What each byte of a word counts.
Unit == <<1, Base, Base * Base, Base * Base * Base>>

Error == -1                 \* an exception

\* The pieces of four bytes, the last one shorter.
Pieces(data) ==
    [k \in 1 .. (Len(data) + 3) \div 4 |->
        SubSeq(data, 4 * k - 3, IF 4 * k > Len(data) THEN Len(data) ELSE 4 * k)]

Total(terms) ==
    LET upTo[n \in 0 .. Len(terms)] == IF n = 0 THEN 0 ELSE upTo[n - 1] + terms[n]
    IN  upTo[Len(terms)]

\* unpack of the little-endian formats, and int.from_bytes.
Little(bytes) == Total([k \in 1 .. Len(bytes) |-> bytes[k] * Unit[k]])

\* An item of bytes is a number, which unpack does not take.
AmlsWord(piece) == IF Len(piece) = 1 THEN Error ELSE Little(piece)

\* Here three bytes are not padded to the four that unpack needs.
UbootWord(piece) == IF Len(piece) \in {1, 3} THEN Error ELSE Little(piece)

\* Sum of the words, Error once one is.
Summed(words) ==
    LET upTo[n \in 0 .. Len(words)] ==
          IF n = 0 THEN 0
          ELSE IF upTo[n - 1] = Error \/ words[n] = Error THEN Error
          ELSE (upTo[n - 1] + words[n]) % Modulus
    IN  upTo[Len(words)]

AmlsChecksum(data) == Summed([k \in DOMAIN Pieces(data) |-> AmlsWord(Pieces(data)[k])])
UbootChecksum(data) == Summed([k \in DOMAIN Pieces(data) |-> UbootWord(Pieces(data)[k])])

\* Mutant of AdnlChecksum: the last piece is dropped when it is short.
AdnlWholeWords(data) ==
    Total([k \in DOMAIN Pieces(data) |->
              IF Len(Pieces(data)[k]) = 4 THEN Little(Pieces(data)[k]) ELSE 0]) % Modulus

AdnlChecksum(data) == Total([k \in DOMAIN Pieces(data) |-> Little(Pieces(data)[k])]) % Modulus
=============================================================================
