---------------------------- MODULE BootUsbProofs ----------------------------
(***************************************************************************)
(* Proofs about BootUsb for every set of files, every board and every      *)
(* number of faults.                                                       *)
(***************************************************************************)
EXTENDS BootUsb, SequenceTheorems, TLAPS

USE AddressAssumption

Boots == setup.tool = "boot"
Preparing == {"identify", "init", "ddr", "again", "params"}

----------------------------------------------------------------------------
(* The lists of files. *)

\* The records of the payload lists.
PayloadWrite ==
    {w \in [file : {"image", "dtb", "script", "ramfs"},
            addr : {IMAGEADDR, DTBADDR, SCRIPTADDR, INITRDADDR},
            mode : {"simple", "fill"}] : Given(w.file)}

LEMMA OptionalType ==
  ASSUME NEW w \in [file : {"image", "dtb", "script", "ramfs"},
                    addr : {IMAGEADDR, DTBADDR, SCRIPTADDR, INITRDADDR},
                    mode : {"simple", "fill"}]
  PROVE Optional(w) \in Seq(PayloadWrite)
<1>1. CASE Given(w.file)
  <2>1. w \in PayloadWrite
    BY <1>1 DEF PayloadWrite
  <2>2. Optional(w) = <<w>>
    BY <1>1 DEF Optional
  <2>. QED
    BY <2>1, <2>2
<1>2. CASE ~Given(w.file)
  BY <1>2 DEF Optional
<1>. QED
  BY <1>1, <1>2

LEMMA PayloadType == PayloadWrites \in Seq(PayloadWrite)
<1>. DEFINE W == [file : {"image", "dtb", "script", "ramfs"},
                  addr : {IMAGEADDR, DTBADDR, SCRIPTADDR, INITRDADDR},
                  mode : {"simple", "fill"}]
<1>1. /\ Fill("image", IMAGEADDR) \in W /\ Simple("dtb", DTBADDR) \in W
      /\ Fill("dtb", DTBADDR) \in W /\ Simple("script", SCRIPTADDR) \in W
      /\ Fill("ramfs", INITRDADDR) \in W
  BY DEF Fill, Simple
<1>2. \A w \in W : Optional(w) \in Seq(PayloadWrite)
  BY OptionalType
<1>3. \A s, t \in Seq(PayloadWrite) : s \o t \in Seq(PayloadWrite)
  BY ConcatProperties
<1>. HIDE DEF W
<1>. QED
  BY <1>1, <1>2, <1>3, Zenon DEF PayloadWrites

\* The files of a boot before the payload, and what follows them.
LEMMA BootWrites ==
  /\ Len(UbootWrites \o PayloadWrites) >= 3
  /\ (UbootWrites \o PayloadWrites)[1] = Large("bl2", DDR_LOAD)
  /\ (UbootWrites \o PayloadWrites)[2] = Large("runfip", BL2_PARAMS)
  /\ (UbootWrites \o PayloadWrites)[3] = Fill("tpl", UBOOT_LOAD)
  /\ \A n \in 4 .. Len(UbootWrites \o PayloadWrites) :
        (UbootWrites \o PayloadWrites)[n] \in PayloadWrite
<1>. DEFINE R == PayloadWrite \cup {Large("bl2", DDR_LOAD), Large("runfip", BL2_PARAMS),
                                   Fill("tpl", UBOOT_LOAD)}
<1>1. UbootWrites \in Seq(R) /\ Len(UbootWrites) = 3
  <2>1. \A a, b, c \in R : <<a, b, c>> \in Seq(R) /\ Len(<<a, b, c>>) = 3
    OBVIOUS
  <2>. QED
    BY <2>1 DEF UbootWrites
<1>2. PayloadWrites \in Seq(PayloadWrite)
  BY PayloadType
<1>3. PayloadWrite \subseteq R
  OBVIOUS
<1>. HIDE DEF R
<1>4. PayloadWrites \in Seq(R)
  BY <1>2, <1>3
<1>5. /\ Len(UbootWrites \o PayloadWrites) = Len(UbootWrites) + Len(PayloadWrites)
      /\ \A i \in 1 .. Len(UbootWrites) + Len(PayloadWrites) :
            (UbootWrites \o PayloadWrites)[i] =
              IF i <= Len(UbootWrites) THEN UbootWrites[i]
              ELSE PayloadWrites[i - Len(UbootWrites)]
  BY <1>1, <1>4, ConcatProperties
<1>6. Len(PayloadWrites) \in Nat
  BY <1>2
<1>7. \A n \in 1 .. Len(PayloadWrites) : PayloadWrites[n] \in PayloadWrite
  BY <1>2
<1>8. /\ UbootWrites[1] = Large("bl2", DDR_LOAD)
      /\ UbootWrites[2] = Large("runfip", BL2_PARAMS)
      /\ UbootWrites[3] = Fill("tpl", UBOOT_LOAD)
  BY DEF UbootWrites
<1>9. ASSUME NEW n \in 4 .. Len(UbootWrites \o PayloadWrites)
      PROVE (UbootWrites \o PayloadWrites)[n] \in PayloadWrite
  <2>1. n - 3 \in 1 .. Len(PayloadWrites)
    BY <1>1, <1>5, <1>6
  <2>2. (UbootWrites \o PayloadWrites)[n] = PayloadWrites[n - 3]
    BY <1>1, <1>5, <1>6
  <2>. QED
    BY <1>7, <2>1, <2>2
<1>. QED
  BY <1>1, <1>5, <1>6, <1>8, <1>9

\* What the lists say of the file in hand: where it goes, and when it is U-Boot.
LEMMA SetupTyped ==
  ASSUME setup \in Setups
  PROVE /\ setup.tool \in {"boot", "chain", "kernel"}
        /\ \A f \in DOMAIN setup.files : Length(f) \in Nat
        /\ setup.tool = "boot" => {"bl2", "ddrinit", "runfip"} \subseteq DOMAIN setup.files
        /\ setup.tool # "kernel" => "tpl" \in DOMAIN setup.files
        /\ "tpl" \in DOMAIN setup.files =>
              Length("tpl") > 0 /\ UBOOT_LOAD + Length("tpl") <= SCRIPTADDR
BY SetupAssumption DEF Length

LEMMA WriteInHand ==
  ASSUME setup \in Setups, next \in Nat \ {0}, next <= Len(Writes),
         pc \in {"init", "load"}, pc = "init" => Boots
  PROVE /\ Writes[next].addr \in Nat
        /\ Length(Writes[next].file) \in Nat
        /\ Writes[next].file = "tpl" => Writes[next].addr < DDR_LOAD
        /\ pc = "init" => Writes[next].file # "runfip"
        /\ pc = "load" /\ Boots /\ next = 3 => Writes[next] = Fill("tpl", UBOOT_LOAD)
        /\ pc = "load" /\ Boots /\ next > 3 => Writes[next].addr >= SCRIPTADDR
        /\ pc = "load" /\ setup.tool = "chain" =>
              next = 1 /\ Writes[next] = Fill("tpl", UBOOT_ADDR)
<1>. DEFINE w == Writes[next]
<1>1. setup.tool \in {"boot", "chain", "kernel"}
      /\ \A f \in DOMAIN setup.files : Length(f) \in Nat
  BY SetupTyped
<1>2. CASE pc = "init"
  <2>1. Writes = <<Simple("bl2", DDR_LOAD), Large("ddrinit", BL2_PARAMS)>>
    BY <1>2 DEF Writes, DdrWrites
  <2>2. w = Simple("bl2", DDR_LOAD) \/ w = Large("ddrinit", BL2_PARAMS)
    BY <2>1
  <2>3. {"bl2", "ddrinit"} \subseteq DOMAIN setup.files
    BY <1>2, SetupTyped DEF Boots
  <2>. QED
    BY <1>1, <1>2, <2>2, <2>3 DEF Simple, Large
<1>3. ASSUME Writes[next] \in PayloadWrite
      PROVE /\ w.addr \in Nat /\ w.addr >= SCRIPTADDR
            /\ Length(w.file) \in Nat /\ w.file # "tpl"
  BY <1>1, <1>3 DEF PayloadWrite, Given
<1>4. CASE pc = "load" /\ Boots
  <2>1. Writes = UbootWrites \o PayloadWrites
    BY <1>4 DEF Writes, Boots
  <2>2. {"bl2", "runfip", "tpl"} \subseteq DOMAIN setup.files
    BY <1>4, SetupTyped DEF Boots
  <2>3. CASE next = 1
    <3>1. w = Large("bl2", DDR_LOAD)
      BY <2>1, <2>3, BootWrites
    <3>. QED
      BY <1>1, <1>4, <2>2, <2>3, <3>1 DEF Large, Boots
  <2>4. CASE next = 2
    <3>1. w = Large("runfip", BL2_PARAMS)
      BY <2>1, <2>4, BootWrites
    <3>. QED
      BY <1>1, <1>4, <2>2, <2>4, <3>1 DEF Large, Boots
  <2>5. CASE next = 3
    <3>1. w = Fill("tpl", UBOOT_LOAD)
      BY <2>1, <2>5, BootWrites
    <3>. QED
      BY <1>1, <1>4, <2>2, <2>5, <3>1 DEF Fill, Boots
  <2>6. CASE next > 3
    <3>1. next \in 4 .. Len(UbootWrites \o PayloadWrites)
      BY <2>1, <2>6, PayloadType
    <3>2. w \in PayloadWrite
      BY <2>1, <3>1, BootWrites
    <3>. QED
      BY <1>3, <1>4, <2>6, <3>2 DEF Boots
  <2>. QED
    BY <2>3, <2>4, <2>5, <2>6
<1>5. CASE pc = "load" /\ setup.tool = "chain"
  <2>1. Writes = <<Fill("tpl", UBOOT_ADDR)>>
    BY <1>5 DEF Writes
  <2>2. next = 1 /\ w = Fill("tpl", UBOOT_ADDR)
    BY <2>1
  <2>3. "tpl" \in DOMAIN setup.files
    BY <1>5, SetupTyped
  <2>. QED
    BY <1>1, <1>5, <2>2, <2>3 DEF Fill, Boots
<1>6. CASE pc = "load" /\ setup.tool = "kernel"
  <2>1. Writes = PayloadWrites
    BY <1>6 DEF Writes
  <2>2. w \in PayloadWrite
    BY <2>1, PayloadType
  <2>. QED
    BY <1>3, <1>6, <2>2 DEF Boots
<1>. QED
  BY <1>1, <1>2, <1>4, <1>5, <1>6 DEF Boots

----------------------------------------------------------------------------
(* What a write leaves in memory. *)

Memory == mem = [a \in DOMAIN mem |-> mem[a]]
Kept(w) == w.addr < DDR_LOAD /\ ~ddr

\* Every byte after a write was there before, comes from the file or pads it.
LEMMA StoredBytes ==
  ASSUME Memory, NEW w, w.addr \in Nat, NEW n \in Nat, NEW pad \in {0, 1}
  PROVE /\ Stored(w, n, pad) = [a \in DOMAIN Stored(w, n, pad) |-> Stored(w, n, pad)[a]]
        /\ Stored(w, n, pad) = mem \/ DOMAIN Stored(w, n, pad) # {}
        /\ \A a \in DOMAIN Stored(w, n, pad) :
              \/ a \in DOMAIN mem /\ Stored(w, n, pad)[a] = mem[a]
              \/ Stored(w, n, pad)[a] = <<"zero", 0>>
              \/ ~Kept(w) /\ \E k \in 0 .. n - 1 : Stored(w, n, pad)[a] = <<w.file, k>>
<1>1. CASE Kept(w)
  BY <1>1 DEF Kept, Stored, Memory
<1>2. CASE ~Kept(w)
  <2>. DEFINE new == w.addr .. w.addr + n + pad - 1
              s == [a \in DOMAIN mem \cup new |->
                      IF a \notin new THEN mem[a]
                      ELSE IF a - w.addr < n THEN <<w.file, a - w.addr>> ELSE <<"zero", 0>>]
  <2>1. Stored(w, n, pad) = s
    BY <1>2 DEF Kept, Stored
  <2>2. CASE n + pad = 0
    <3>1. new = {}
      BY <2>2
    <3>2. s = [a \in DOMAIN mem |-> mem[a]]
      BY <3>1
    <3>. HIDE DEF new, s
    <3>. QED
      BY <2>1, <3>2 DEF Memory
  <2>3. CASE n + pad > 0
    <3>1. w.addr \in new
      BY <2>3
    <3>2. DOMAIN s = DOMAIN mem \cup new
      OBVIOUS
    <3>3. ASSUME NEW a \in DOMAIN s
          PROVE \/ a \in DOMAIN mem /\ s[a] = mem[a]
                \/ s[a] = <<"zero", 0>>
                \/ \E k \in 0 .. n - 1 : s[a] = <<w.file, k>>
      <4>1. CASE a \notin new
        BY <3>3, <4>1
      <4>2. CASE a \in new /\ a - w.addr < n
        <5>1. a - w.addr \in 0 .. n - 1 /\ s[a] = <<w.file, a - w.addr>>
          BY <4>2
        <5>. QED
          BY <5>1
      <4>3. CASE a \in new /\ ~(a - w.addr < n)
        BY <4>3
      <4>. QED
        BY <4>1, <4>2, <4>3
    <3>4. s = [a \in DOMAIN s |-> s[a]]
      OBVIOUS
    <3>. HIDE DEF new, s
    <3>. QED
      BY <1>2, <2>1, <3>1, <3>2, <3>3, <3>4
  <2>. QED
    BY <2>2, <2>3
<1>. QED
  BY <1>1, <1>2

\* Nothing below the address of a write is touched.
LEMMA StoredBelow ==
  ASSUME NEW w, w.addr \in Nat, NEW n \in Nat, NEW pad \in {0, 1},
         NEW a \in DOMAIN mem, a \in Nat, a < w.addr
  PROVE a \in DOMAIN Stored(w, n, pad) /\ Stored(w, n, pad)[a] = mem[a]
BY DEF Stored

\* A write that is kept leaves the file at its address.
LEMMA StoredAll ==
  ASSUME NEW w, w.addr \in Nat, NEW n \in Nat, NEW pad \in {0, 1}, ~Kept(w),
         NEW k \in 0 .. n - 1
  PROVE w.addr + k \in DOMAIN Stored(w, n, pad)
        /\ Stored(w, n, pad)[w.addr + k] = <<w.file, k>>
<1>1. w.addr + k \in w.addr .. w.addr + n + pad - 1
  OBVIOUS
<1>2. w.addr + k - w.addr = k /\ k < n
  OBVIOUS
<1>. QED
  BY <1>1, <1>2 DEF Stored, Kept

----------------------------------------------------------------------------
(* The inductive invariant. *)

TypeInv ==
    /\ setup \in Setups
    /\ next \in Nat \ {0}
    /\ Memory
    /\ pc \in Preparing => Boots
    /\ pc \notin {"init", "load"} \cup Ended => next = 1
    /\ dstage = "absent" => pc \in {"find", "notfound"}

\* U-Boot is in memory only once DDR works, and the parameters that start it
\* are not there before U-Boot is written.
NoUbootYet == ~ddr => \A a \in DOMAIN mem : mem[a] # <<"tpl", 0>>
NoFipYet ==
    pc \in Preparing \cup {"find"} => \A a \in DOMAIN mem : mem[a] # <<"runfip", 0>>

\* DDR of a board that still answers works when the second identification
\* finds the ROM, and from there on.
DdrWorks ==
    /\ ~Boots /\ dstage # "off" => ddr
    /\ Connected /\ pc = "again" => dstage = "spl" \/ ddr
    /\ Connected /\ pc \in {"load", "run"} => ddr

\* U-Boot stays in place while the payload is written.
UbootWritten == pc = "run" \/ (pc = "load" /\ next > (IF Boots THEN 3 ELSE 1))
UbootKept == Connected /\ setup.tool # "kernel" /\ UbootWritten => UbootInPlace

StartedLast == started => pc = "done" /\ StartsWhole

IInv == TypeInv /\ NoUbootYet /\ NoFipYet /\ DdrWorks /\ UbootKept /\ StartedLast

LEMMA InitIInv == Init => IInv
<1>. SUFFICES ASSUME Init PROVE IInv
  OBVIOUS
<1>1. DOMAIN mem = {} /\ mem = [a \in {} |-> mem[a]]
  BY DEF Init
<1>2. TypeInv
  BY <1>1 DEF Init, TypeInv, Memory, Preparing, Ended
<1>3. NoUbootYet /\ NoFipYet
  BY <1>1 DEF NoUbootYet, NoFipYet
<1>4. DdrWorks /\ UbootKept /\ StartedLast
  BY DEF Init, DdrWorks, UbootKept, UbootWritten, StartedLast, Boots, Connected
<1>. QED
  BY <1>2, <1>3, <1>4 DEF IInv

\* Neither U-Boot in DDR that keeps nothing nor the parameters that start it
\* come of the list in hand before their time.
LEMMA WriteSound ==
  ASSUME IInv, pc \in {"init", "load"}, next <= Len(Writes),
         NEW n \in Nat, NEW pad \in {0, 1}, mem' = Stored(Writes[next], n, pad),
         UNCHANGED <<setup, ddr>>
  PROVE /\ Memory'
        /\ NoUbootYet'
        /\ pc = "init" => \A a \in DOMAIN mem' : mem'[a] # <<"runfip", 0>>
<1>w. PICK w : w = Writes[next]
  OBVIOUS
<1>1. /\ w.addr \in Nat
      /\ w.file = "tpl" => w.addr < DDR_LOAD
      /\ pc = "init" => w.file # "runfip"
  BY <1>w, WriteInHand DEF IInv, TypeInv, Preparing
<1>2. /\ mem' = [a \in DOMAIN mem' |-> mem'[a]]
      /\ \A a \in DOMAIN mem' :
            \/ a \in DOMAIN mem /\ mem'[a] = mem[a]
            \/ mem'[a] = <<"zero", 0>>
            \/ ~Kept(w) /\ \E k \in 0 .. n - 1 : mem'[a] = <<w.file, k>>
  <2>1. Memory
    BY DEF IInv, TypeInv
  <2>2. mem' = Stored(w, n, pad)
    BY <1>w
  <2>. QED
    BY <1>1, <2>1, <2>2, StoredBytes
<1>3. \A k : <<w.file, k>> = <<"tpl", 0>> => w.file = "tpl"
  OBVIOUS
<1>4. \A k : <<w.file, k>> = <<"runfip", 0>> => w.file = "runfip"
  OBVIOUS
<1>5. <<"zero", 0>> # <<"tpl", 0>> /\ <<"zero", 0>> # <<"runfip", 0>>
  OBVIOUS
<1>6. NoUbootYet'
  <2>. SUFFICES ASSUME ~ddr, NEW a \in DOMAIN mem' PROVE mem'[a] # <<"tpl", 0>>
    BY DEF NoUbootYet
  <2>1. \A b \in DOMAIN mem : mem[b] # <<"tpl", 0>>
    BY DEF IInv, NoUbootYet
  <2>. QED
    BY <1>1, <1>2, <1>3, <1>5, <2>1 DEF Kept
<1>7. ASSUME pc = "init", NEW a \in DOMAIN mem' PROVE mem'[a] # <<"runfip", 0>>
  <2>1. \A b \in DOMAIN mem : mem[b] # <<"runfip", 0>>
    BY <1>7 DEF IInv, NoFipYet, Preparing
  <2>. QED
    BY <1>1, <1>2, <1>4, <1>5, <1>7, <2>1
<1>. QED
  BY <1>2, <1>6, <1>7 DEF Memory

\* The write that brings U-Boot leaves all of it, and those after it are above.
LEMMA WriteKeepsUboot ==
  ASSUME IInv, pc = "load", next <= Len(Writes), Connected, setup.tool # "kernel",
         NEW pad \in {0, 1},
         mem' = Stored(Writes[next], Length(Writes[next].file), pad),
         next >= (IF Boots THEN 3 ELSE 1), UNCHANGED setup
  PROVE UbootInPlace'
<1>w. PICK w : w = Writes[next]
  OBVIOUS
<1>n. PICK n : n = Length(w.file)
  OBVIOUS
<1>m. mem' = Stored(w, n, pad)
  BY <1>w, <1>n
<1>p. PICK place \in Nat : place = IF Boots THEN UBOOT_LOAD ELSE UBOOT_ADDR
  OBVIOUS
<1>1. /\ setup \in Setups /\ next \in Nat \ {0} /\ ddr
      /\ w.addr \in Nat /\ n \in Nat
      /\ Boots /\ next = 3 => w = Fill("tpl", UBOOT_LOAD)
      /\ Boots /\ next > 3 => w.addr >= SCRIPTADDR
      /\ setup.tool = "chain" => next = 1 /\ w = Fill("tpl", UBOOT_ADDR)
  BY <1>w, <1>n, WriteInHand DEF IInv, TypeInv, DdrWorks, Preparing
<1>2. /\ setup.tool = "boot" \/ setup.tool = "chain"
      /\ "tpl" \in DOMAIN setup.files
      /\ Length("tpl") \in Nat /\ UBOOT_LOAD + Length("tpl") <= SCRIPTADDR
  BY <1>1, SetupTyped
<1>4. CASE Boots /\ next > 3
  <2>1. \A k \in 0 .. Length("tpl") - 1 :
          UBOOT_LOAD + k \in DOMAIN mem /\ mem[UBOOT_LOAD + k] = <<"tpl", k>>
    BY <1>4 DEF IInv, UbootKept, UbootWritten, UbootInPlace, Holds, Boots
  <2>2. \A k \in 0 .. Length("tpl") - 1 : UBOOT_LOAD + k \in Nat /\ UBOOT_LOAD + k < w.addr
    <3>1. PICK l \in Nat : l = Length("tpl") /\ UBOOT_LOAD + l <= SCRIPTADDR
      BY <1>2
    <3>2. w.addr \in Nat /\ w.addr >= SCRIPTADDR
      BY <1>1, <1>4
    <3>3. \A u, s, a, k \in Nat : u + l <= s /\ a >= s /\ k < l => u + k < a
      OBVIOUS
    <3>4. \A k \in 0 .. l - 1 : k \in Nat /\ k < l /\ UBOOT_LOAD + k \in Nat
      <4>1. UBOOT_LOAD \in Nat
        OBVIOUS
      <4>. QED
        BY <3>1, <4>1
    <3>5. \A k \in 0 .. l - 1 : UBOOT_LOAD + k < w.addr
      BY <3>1, <3>2, <3>3, <3>4
    <3>6. 0 .. Length("tpl") - 1 = 0 .. l - 1
      BY <3>1
    <3>. QED
      BY <3>4, <3>5, <3>6, Zenon
  <2>3. \A k \in 0 .. Length("tpl") - 1 :
          UBOOT_LOAD + k \in DOMAIN mem' /\ mem'[UBOOT_LOAD + k] = <<"tpl", k>>
    <3>1. \A a \in DOMAIN mem : a \in Nat /\ a < w.addr =>
             a \in DOMAIN mem' /\ mem'[a] = mem[a]
      BY <1>1, <1>m, StoredBelow
    <3>. QED
      BY <2>1, <2>2, <3>1
  <2>. QED
    BY <1>2, <1>4, <2>3 DEF UbootInPlace, Given, Holds, Length, Boots
<1>5. CASE ~(Boots /\ next > 3)
  <2>1. w = Fill("tpl", place)
    BY <1>1, <1>2, <1>5, <1>p DEF Boots
  <2>2. w.addr = place /\ w.file = "tpl"
    BY <2>1 DEF Fill
  <2>3. ~Kept(w)
    BY <1>1 DEF Kept
  <2>4. \A k \in 0 .. n - 1 : w.addr + k \in DOMAIN mem' /\ mem'[w.addr + k] = <<w.file, k>>
    <3>1. w.addr \in Nat /\ n \in Nat
      BY <1>1
    <3>2. \A k \in 0 .. n - 1 :
            w.addr + k \in DOMAIN Stored(w, n, pad)
            /\ Stored(w, n, pad)[w.addr + k] = <<w.file, k>>
      BY <2>3, <3>1, StoredAll
    <3>. QED
      BY <1>m, <3>2
  <2>5. \A k \in 0 .. Length("tpl") - 1 :
          place + k \in DOMAIN mem' /\ mem'[place + k] = <<"tpl", k>>
    BY <1>n, <2>2, <2>4
  <2>6. UbootInPlace' = (Given("tpl")' /\ Holds("tpl", place)')
    BY <1>p, Zenon DEF UbootInPlace, Boots
  <2>7. Given("tpl")' /\ Holds("tpl", place)'
    BY <1>2, <2>5 DEF Given, Holds, Length
  <2>. QED
    BY <2>6, <2>7
<1>. QED
  BY <1>4, <1>5

\* The parts of the invariant after a step that leaves the memory, the setup
\* and DDR alone.
LEMMA SameMemory ==
  ASSUME IInv, UNCHANGED <<setup, ddr, mem>>
  PROVE /\ setup' \in Setups /\ Memory' /\ NoUbootYet' /\ (Boots' <=> Boots)
        /\ UbootInPlace' <=> UbootInPlace
        /\ pc \in Preparing \cup {"find"} => NoFipYet'
<1>1. UbootInPlace' <=> UbootInPlace
  BY DEF UbootInPlace, Given, Holds, Length
<1>3. setup' \in Setups /\ Memory' /\ NoUbootYet'
  BY DEF IInv, TypeInv, Memory, NoUbootYet
<1>4. ASSUME pc \in Preparing \cup {"find"} PROVE NoFipYet'
  BY <1>4 DEF IInv, NoFipYet
<1>5. Boots' <=> Boots
  BY DEF Boots
<1>. QED
  BY <1>1, <1>3, <1>4, <1>5

LEMMA FindKeeps == IInv /\ Find => IInv'
<1>. SUFFICES ASSUME IInv, Find PROVE IInv'
  OBVIOUS
<1>1. /\ UNCHANGED <<setup, next, dstage, ddr, mem, started>> /\ pc = "find" /\ ~started
      /\ \/ pc' = "identify" /\ Boots /\ Connected
         \/ pc' = "load" /\ ~Boots /\ Connected
         \/ pc' = "notfound"
  BY DEF Find, IInv, StartedLast, Boots
<1>2. /\ setup' \in Setups /\ Memory' /\ NoUbootYet' /\ (Boots' <=> Boots) /\ NoFipYet'
      /\ (UbootInPlace' <=> UbootInPlace) /\ (Connected' <=> Connected)
  BY <1>1, SameMemory DEF Connected
<1>3. TypeInv'
  BY <1>1, <1>2 DEF IInv, TypeInv, Preparing, Connected, Ended
<1>4. DdrWorks'
  BY <1>1, <1>2 DEF IInv, DdrWorks, Connected
<1>5. UbootKept'
  BY <1>1, <1>2 DEF IInv, TypeInv, UbootKept, UbootWritten, Ended
<1>6. StartedLast'
  BY <1>1 DEF StartedLast
<1>. QED
  BY <1>2, <1>3, <1>4, <1>5, <1>6 DEF IInv

LEMMA IdentifyKeeps == IInv /\ Identify => IInv'
<1>. SUFFICES ASSUME IInv, Identify PROVE IInv'
  OBVIOUS
<1>1. /\ UNCHANGED <<setup, next, dstage, ddr, mem, started>> /\ ~started
      /\ pc \in {"identify", "again"} /\ Connected
      /\ \/ pc = "identify" /\ pc' = "init"
         \/ pc = "again" /\ dstage = "spl" /\ pc' = "params"
         \/ pc = "again" /\ dstage # "spl" /\ pc' = "load"
  BY DEF Identify, IInv, StartedLast
<1>2. /\ setup' \in Setups /\ Memory' /\ NoUbootYet' /\ (Boots' <=> Boots) /\ NoFipYet'
      /\ (UbootInPlace' <=> UbootInPlace) /\ (Connected' <=> Connected)
  BY <1>1, SameMemory DEF Connected, Preparing
<1>3. Boots /\ next = 1
  BY <1>1 DEF IInv, TypeInv, Preparing, Ended
<1>4. TypeInv'
  BY <1>1, <1>2, <1>3 DEF TypeInv, Preparing, Connected, Ended
<1>5. DdrWorks'
  BY <1>1, <1>2, <1>3 DEF IInv, DdrWorks, Connected
<1>6. UbootKept'
  BY <1>1, <1>2, <1>3 DEF UbootKept, UbootWritten
<1>7. StartedLast'
  BY <1>1 DEF StartedLast
<1>. QED
  BY <1>2, <1>4, <1>5, <1>6, <1>7 DEF IInv

\* Any step that ends the tool without touching the board.
LEMMA FailKeeps ==
  ASSUME IInv, UNCHANGED <<setup, next, dstage, ddr, mem, started>>, ~started,
         pc' = "failed", dstage # "absent"
  PROVE IInv'
<1>1. /\ setup' \in Setups /\ Memory' /\ NoUbootYet' /\ (Boots' <=> Boots)
  BY SameMemory
<1>2. TypeInv'
  BY <1>1 DEF IInv, TypeInv, Preparing, Ended
<1>3. NoFipYet'
  BY DEF NoFipYet, Preparing
<1>4. DdrWorks' /\ UbootKept' /\ StartedLast'
  BY <1>1 DEF IInv, DdrWorks, UbootKept, UbootWritten, StartedLast
<1>. QED
  BY <1>1, <1>2, <1>3, <1>4 DEF IInv

LEMMA UsbErrorKeeps == IInv /\ UsbError => IInv'
<1>. SUFFICES ASSUME IInv, UsbError PROVE IInv'
  OBVIOUS
<1>1. /\ UNCHANGED <<setup, next, dstage, ddr, mem, started>> /\ pc' = "failed"
      /\ ~started /\ dstage # "absent"
  BY DEF UsbError, IInv, StartedLast, TypeInv, Ended
<1>. QED
  BY <1>1, FailKeeps

LEMMA WriteCutKeeps == IInv /\ WriteCut => IInv'
<1>. SUFFICES ASSUME IInv, WriteCut PROVE IInv'
  OBVIOUS
<1>1. /\ UNCHANGED <<setup, next, dstage, ddr, started>> /\ pc' = "failed" /\ ~started
      /\ pc \in {"init", "load"} /\ next <= Len(Writes) /\ dstage # "absent"
  BY DEF WriteCut, IInv, StartedLast, Connected
<1>2. PICK n \in 0 .. Length(Writes[next].file) - 1 : mem' = Stored(Writes[next], n, 0)
  BY DEF WriteCut
<1>3. n \in Nat
  OBVIOUS
<1>4. Memory' /\ NoUbootYet'
  BY <1>1, <1>2, <1>3, WriteSound
<1>5. TypeInv'
  BY <1>1, <1>4 DEF IInv, TypeInv, Preparing, Ended
<1>6. NoFipYet'
  BY <1>1 DEF NoFipYet, Preparing
<1>7. DdrWorks' /\ UbootKept' /\ StartedLast'
  BY <1>1 DEF IInv, DdrWorks, UbootKept, UbootWritten, StartedLast, Boots
<1>. QED
  BY <1>4, <1>5, <1>6, <1>7 DEF IInv

LEMMA WriteFileKeeps == IInv /\ WriteFile => IInv'
<1>. SUFFICES ASSUME IInv, WriteFile PROVE IInv'
  OBVIOUS
<1>1. /\ UNCHANGED <<setup, dstage, ddr, started>> /\ ~started
      /\ pc \in {"init", "load"} /\ next <= Len(Writes) /\ Connected /\ dstage # "absent"
  BY DEF WriteFile, IInv, StartedLast, Connected
<1>2. CASE Refused(Writes[next])
  <2>1. UNCHANGED <<next, mem>> /\ pc' = "failed"
    BY <1>2 DEF WriteFile
  <2>. QED
    BY <1>1, <2>1, FailKeeps
<1>3. CASE ~Refused(Writes[next])
  <2>1. PICK pad \in {0, 1} :
          mem' = Stored(Writes[next], Length(Writes[next].file), pad)
    BY <1>3 DEF WriteFile
  <2>2. next' = next + 1 /\ pc' = pc
    BY <1>3 DEF WriteFile
  <2>3. Length(Writes[next].file) \in Nat
    BY <1>1, WriteInHand DEF IInv, TypeInv, Preparing
  <2>4. /\ Memory' /\ NoUbootYet'
        /\ pc = "init" => \A a \in DOMAIN mem' : mem'[a] # <<"runfip", 0>>
    BY <1>1, <2>1, <2>3, WriteSound
  <2>5. TypeInv'
    BY <1>1, <2>2, <2>4 DEF IInv, TypeInv, Preparing, Ended, Boots
  <2>6. NoFipYet'
    BY <1>1, <2>2, <2>4 DEF NoFipYet, Preparing
  <2>7. DdrWorks'
    BY <1>1, <2>2 DEF IInv, DdrWorks, Boots, Connected
  <2>8. UbootKept'
    <3>. SUFFICES ASSUME pc = "load", setup.tool # "kernel",
                         next + 1 > (IF Boots THEN 3 ELSE 1)
                  PROVE UbootInPlace'
      BY <1>1, <2>2 DEF UbootKept, UbootWritten, Boots
    <3>1. next >= (IF Boots THEN 3 ELSE 1)
      BY DEF IInv, TypeInv
    <3>. QED
      BY <1>1, <2>1, <3>1, WriteKeepsUboot
  <2>9. StartedLast'
    BY <1>1 DEF StartedLast
  <2>. QED
    BY <2>4, <2>5, <2>6, <2>7, <2>8, <2>9 DEF IInv
<1>. QED
  BY <1>2, <1>3

LEMMA LoadedKeeps == IInv /\ Loaded => IInv'
<1>. SUFFICES ASSUME IInv, Loaded PROVE IInv'
  OBVIOUS
<1>1. /\ UNCHANGED <<setup, dstage, ddr, mem, started>> /\ ~started /\ next' = 1
      /\ next > Len(Writes)
      /\ \/ pc = "init" /\ pc' = "ddr"
         \/ pc = "load" /\ pc' = "run"
  BY DEF Loaded, IInv, StartedLast
<1>2. /\ setup' \in Setups /\ Memory' /\ NoUbootYet' /\ (Boots' <=> Boots)
      /\ (UbootInPlace' <=> UbootInPlace) /\ (Connected' <=> Connected)
      /\ (pc = "init" => NoFipYet')
  BY <1>1, SameMemory DEF Connected, Preparing
<1>3. TypeInv'
  BY <1>1, <1>2 DEF IInv, TypeInv, Preparing, Connected, Ended
<1>4. NoFipYet'
  BY <1>1, <1>2 DEF NoFipYet, Preparing
<1>5. DdrWorks'
  BY <1>1, <1>2 DEF IInv, DdrWorks, Connected
<1>6. UbootKept'
  <2>. SUFFICES ASSUME pc = "load", Connected, setup.tool # "kernel" PROVE UbootInPlace
    BY <1>1, <1>2 DEF UbootKept, UbootWritten
  <2>1. next > (IF Boots THEN 3 ELSE 1)
    <3>1. CASE Boots
      <4>1. Writes = UbootWrites \o PayloadWrites
        BY <3>1 DEF Writes, Boots
      <4>2. Len(Writes) \in Nat /\ Len(Writes) >= 3
        BY <4>1, BootWrites
      <4>. QED
        BY <1>1, <3>1, <4>2 DEF IInv, TypeInv
    <3>2. CASE ~Boots
      <4>1. setup.tool = "chain"
        BY <3>2, SetupTyped DEF IInv, TypeInv, Boots
      <4>2. Writes = <<Fill("tpl", UBOOT_ADDR)>>
        BY <4>1 DEF Writes
      <4>. QED
        BY <1>1, <3>2, <4>2 DEF IInv, TypeInv
    <3>. QED
      BY <3>1, <3>2
  <2>. QED
    BY <2>1 DEF IInv, UbootKept, UbootWritten
<1>7. StartedLast'
  BY <1>1 DEF StartedLast
<1>. QED
  BY <1>2, <1>3, <1>4, <1>5, <1>6, <1>7 DEF IInv

\* The outcomes of a run: BL2 stays, or initialises DDR, or starts U-Boot, for
\* which its parameters have to be in memory, or the board crashes.
Stays(addr) == addr = DDR_LOAD /\ dstage' = "spl" /\ UNCHANGED <<ddr, started>>
Initialises == ddr' = TRUE /\ dstage' \in {"rom", "spl"} /\ UNCHANGED started
Starts ==
    /\ \E a \in DOMAIN mem : mem[a] = <<"runfip", 0>>
    /\ started' = TRUE /\ dstage' = "tpl" /\ UNCHANGED ddr

LEMMA RunOutcomes ==
  ASSUME NEW addr, RunAt(addr)
  PROVE Stays(addr) \/ Initialises \/ Starts \/ Crash
<1>1. Parameters = "uboot" => \E a \in DOMAIN mem : mem[a] = <<"runfip", 0>>
  BY DEF Parameters
<1>2. ASSUME NEW after \in {"rom", "spl"}, Execute(after)
      PROVE Initialises \/ Starts \/ Crash
  BY <1>1, <1>2 DEF Execute, Initialises, Starts
<1>3. \/ Stays(addr)
      \/ \E after \in {"rom", "spl"} : Execute(after)
      \/ Crash
  BY DEF RunAt, RomRuns, SplRuns, Stays
<1>. QED
  BY <1>2, <1>3

\* A run before U-Boot was written.
LEMMA EarlyRunKeeps ==
  ASSUME IInv, NEW addr, RunAt(addr), Connected, UNCHANGED <<setup, next, mem>>,
         \/ pc = "ddr" /\ pc' = "again"
         \/ pc = "params" /\ pc' = "load" /\ addr = BL2_PARAMS
  PROVE IInv'
<1>1. pc \in Preparing /\ ~started /\ Boots /\ next = 1 /\ setup \in Setups
  BY DEF IInv, TypeInv, StartedLast, Preparing, Ended
<1>2. ~Starts
  BY <1>1 DEF Starts, IInv, NoFipYet
<1>3. Stays(addr) \/ Initialises \/ Crash
  BY <1>2, RunOutcomes
<1>4. /\ ~started' /\ (ddr => ddr') /\ dstage' \in {"rom", "spl", "off"}
      /\ dstage' = "off" \/ ddr' \/ (dstage' = "spl" /\ pc' = "again")
  <2>1. BL2_PARAMS # DDR_LOAD /\ "ddr" # "params"
    OBVIOUS
  <2>. QED
    BY <1>1, <1>3, <2>1 DEF Stays, Initialises, Crash
<1>5. Memory' /\ Boots'
  BY <1>1 DEF IInv, TypeInv, Memory, Boots
<1>6. TypeInv'
  BY <1>1, <1>4, <1>5 DEF TypeInv, Ended
<1>7. NoUbootYet' /\ NoFipYet'
  BY <1>1, <1>4 DEF IInv, NoUbootYet, NoFipYet
<1>8. DdrWorks'
  BY <1>4, <1>5 DEF DdrWorks, Connected
<1>9. UbootKept' /\ StartedLast'
  BY <1>1, <1>4, <1>5 DEF UbootKept, UbootWritten, StartedLast
<1>. QED
  BY <1>6, <1>7, <1>8, <1>9 DEF IInv

LEMMA RunDdrKeeps == IInv /\ RunDdr => IInv'
BY EarlyRunKeeps DEF RunDdr

LEMMA RunParamsKeeps == IInv /\ RunParams => IInv'
BY EarlyRunKeeps DEF RunParams

LEMMA RunUbootKeeps == IInv /\ RunUboot => IInv'
<1>. SUFFICES ASSUME IInv, RunUboot PROVE IInv'
  OBVIOUS
<1>1. /\ UNCHANGED <<setup, next, mem>> /\ pc = "run" /\ pc' = "done"
      /\ Boots /\ Connected /\ RunAt(RunAddress)
  BY DEF RunUboot, Boots
<1>2. ddr /\ UbootInPlace /\ ~started
  BY <1>1 DEF IInv, DdrWorks, UbootKept, UbootWritten, StartedLast, Boots
<1>3. ddr' /\ dstage' # "absent"
  <2>1. Stays(RunAddress) \/ Initialises \/ Starts \/ Crash
    BY <1>1, RunOutcomes
  <2>. QED
    BY <1>2, <2>1 DEF Stays, Initialises, Starts, Crash
<1>4. Memory' /\ Boots' /\ UbootInPlace'
  BY <1>1, <1>2 DEF IInv, TypeInv, Memory, Boots, UbootInPlace, Given, Holds, Length
<1>5. TypeInv'
  BY <1>1, <1>3, <1>4 DEF IInv, TypeInv, Preparing, Ended
<1>6. NoUbootYet' /\ NoFipYet'
  BY <1>1, <1>3 DEF NoUbootYet, NoFipYet, Preparing
<1>7. DdrWorks' /\ UbootKept'
  BY <1>1, <1>3, <1>4 DEF DdrWorks, UbootKept
<1>8. StartedLast'
  BY <1>1, <1>3, <1>4 DEF StartedLast, StartsWhole
<1>. QED
  BY <1>5, <1>6, <1>7, <1>8 DEF IInv

LEMMA CommandKeeps == IInv /\ Command => IInv'
<1>. SUFFICES ASSUME IInv, Command PROVE IInv'
  OBVIOUS
<1>1. /\ UNCHANGED <<setup, next, dstage, ddr, mem>> /\ pc = "run" /\ ~Boots /\ Connected
      /\ (pc' = "failed" /\ UNCHANGED started) \/ pc' = "done"
  BY DEF Command, Boots
<1>2. ~started
  BY <1>1 DEF IInv, StartedLast
<1>3. ddr /\ (setup.tool # "kernel" => UbootInPlace)
  BY <1>1 DEF IInv, DdrWorks, UbootKept, UbootWritten
<1>4. /\ setup' \in Setups /\ Memory' /\ NoUbootYet' /\ (Boots' <=> Boots)
      /\ (UbootInPlace' <=> UbootInPlace)
  BY <1>1, SameMemory
<1>5. TypeInv'
  BY <1>1, <1>4 DEF IInv, TypeInv, Preparing, Ended
<1>6. NoFipYet' /\ DdrWorks' /\ UbootKept'
  BY <1>1, <1>3, <1>4 DEF NoFipYet, Preparing, DdrWorks, UbootKept, UbootWritten
<1>7. StartedLast'
  BY <1>1, <1>2, <1>3, <1>4 DEF StartedLast, StartsWhole
<1>. QED
  BY <1>4, <1>5, <1>6, <1>7 DEF IInv

LEMMA PlugKeeps == IInv /\ Plug => IInv'
<1>. SUFFICES ASSUME IInv, Plug PROVE IInv'
  OBVIOUS
<1>1. /\ UNCHANGED <<setup, pc, next, ddr, mem, started>> /\ dstage = "absent"
      /\ dstage' \in {"rom", "tpl"} /\ pc \in {"find", "notfound"}
  BY DEF Plug, IInv, TypeInv
<1>2. /\ setup' \in Setups /\ Memory' /\ NoUbootYet' /\ (Boots' <=> Boots)
      /\ (UbootInPlace' <=> UbootInPlace)
  BY <1>1, SameMemory
<1>3. TypeInv' /\ NoFipYet'
  BY <1>1, <1>2 DEF IInv, TypeInv, NoFipYet, Preparing, Ended
<1>4. DdrWorks' /\ UbootKept' /\ StartedLast'
  BY <1>1, <1>2 DEF IInv, DdrWorks, UbootKept, UbootWritten, StartedLast
<1>. QED
  BY <1>2, <1>3, <1>4 DEF IInv

LEMMA PowerLossKeeps == IInv /\ PowerLoss => IInv'
<1>. SUFFICES ASSUME IInv, PowerLoss PROVE IInv'
  OBVIOUS
<1>1. /\ UNCHANGED <<setup, pc, next, started>> /\ ~started
      /\ dstage' = "off" /\ mem' = <<>>
  BY DEF PowerLoss
<1>2. DOMAIN mem' = {} /\ mem' = [a \in {} |-> mem'[a]]
  BY <1>1
<1>3. TypeInv' /\ NoUbootYet' /\ NoFipYet'
  BY <1>1, <1>2 DEF IInv, TypeInv, Memory, NoUbootYet, NoFipYet, Boots
<1>4. DdrWorks' /\ UbootKept' /\ StartedLast'
  BY <1>1 DEF DdrWorks, UbootKept, StartedLast, Connected
<1>. QED
  BY <1>3, <1>4 DEF IInv

LEMMA NextIInv == IInv /\ [Next]_vars => IInv'
<1>. SUFFICES ASSUME IInv, [Next]_vars PROVE IInv'
  OBVIOUS
<1>1. CASE UNCHANGED vars
  <2>1. /\ UNCHANGED <<setup, pc, next, dstage, ddr, mem, started>>
    BY <1>1 DEF vars
  <2>2. /\ setup' \in Setups /\ Memory' /\ NoUbootYet' /\ (Boots' <=> Boots)
        /\ (UbootInPlace' <=> UbootInPlace)
    BY <2>1, SameMemory
  <2>3. TypeInv' /\ NoFipYet'
    BY <2>1, <2>2 DEF IInv, TypeInv, NoFipYet
  <2>4. DdrWorks' /\ UbootKept' /\ StartedLast'
    BY <2>1, <2>2 DEF IInv, DdrWorks, UbootKept, UbootWritten, StartedLast, StartsWhole,
                      Connected
  <2>. QED
    BY <2>2, <2>3, <2>4 DEF IInv
<1>2. CASE Next
  BY <1>2, FindKeeps, IdentifyKeeps, WriteFileKeeps, WriteCutKeeps, LoadedKeeps,
     RunDdrKeeps, RunParamsKeeps, RunUbootKeeps, CommandKeeps, UsbErrorKeeps,
     PlugKeeps, PowerLossKeeps DEF Next, HostNext
<1>. QED
  BY <1>1, <1>2

\* At every step of boot.py, chainUboot.py and runKernel.py the files written so
\* far are in memory, as long as the board has power and the identification holds.
THEOREM Invariance == Spec => []IInv
BY InitIInv, NextIInv, PTL DEF Spec

\* Control is given to U-Boot only with all of it in DDR that works
\* (run_uboot of boot.py and main of chainUboot.py).
THEOREM StartedWhole == Spec => []StartsWhole
<1>1. IInv => StartsWhole
  BY DEF IInv, StartedLast, StartsWhole
<1>. QED
  BY <1>1, Invariance, PTL

----------------------------------------------------------------------------
(* Every step is a step of the boot contract, or none at all. *)

Uboot == ddr /\ UbootInPlace
Written == DOMAIN mem # {}
Running == started \/ (setup.tool # "boot" /\ ddr)

LEMMA InitContract == Init => Contract!Init
<1>. SUFFICES ASSUME Init PROVE Contract!Init
  OBVIOUS
<1>1. DOMAIN mem = {} /\ setup \in Setups /\ ddr = (setup.tool # "boot") /\ ~started
  BY DEF Init
<1>2. ~Uboot
  <2>. SUFFICES ASSUME UbootInPlace PROVE FALSE
    BY DEF Uboot
  <2>1. PICK l \in Nat : l = Length("tpl") /\ l > 0
    BY <1>1, SetupTyped DEF UbootInPlace, Given
  <2>2. 0 \in 0 .. Length("tpl") - 1
    BY <2>1
  <2>. QED
    BY <1>1, <2>2 DEF UbootInPlace, Holds
<1>3. ~Written
  BY <1>1 DEF Written
<1>4. Running => ddr
  BY <1>1 DEF Running
<1>5. ddr \in BOOLEAN /\ FALSE \in BOOLEAN /\ Running \in BOOLEAN
  BY <1>1, Zenon DEF Running
<1>6. Written = FALSE /\ Uboot = FALSE
  BY <1>2, <1>3, Zenon DEF Written, Uboot
<1>. QED
  BY <1>4, <1>5, <1>6, Zenon DEF Contract!Init, Uboot, Written, Running

\* A step that changes none of the things the contract speaks of.
LEMMA SameContract ==
  ASSUME ddr' = ddr, Uboot' <=> Uboot, Written' <=> Written, Running' <=> Running
  PROVE UNCHANGED Contract!vars
BY Zenon DEF Contract!vars, Uboot, Written, Running

LEMMA QuietContract ==
  ASSUME UNCHANGED <<setup, ddr, mem, started>>
  PROVE UNCHANGED Contract!vars
<1>1. UbootInPlace' <=> UbootInPlace
  BY DEF UbootInPlace, Given, Holds, Length
<1>2. /\ Uboot' <=> Uboot
      /\ Written' <=> Written
      /\ Running' <=> Running
  BY <1>1 DEF Uboot, Written, Running
<1>. QED
  BY <1>2, SameContract

LEMMA WriteContract ==
  ASSUME IInv, pc \in {"init", "load"}, next <= Len(Writes), NEW n \in Nat,
         NEW pad \in {0, 1}, mem' = Stored(Writes[next], n, pad),
         UNCHANGED <<setup, ddr, started>>
  PROVE [Contract!Next]_(Contract!vars)
<1>w. PICK w : w = Writes[next]
  OBVIOUS
<1>1. w.addr \in Nat /\ Memory
  BY <1>w, WriteInHand DEF IInv, TypeInv, Preparing
<1>2. mem' = Stored(w, n, pad)
  BY <1>w
<1>3. mem' = mem \/ DOMAIN mem' # {}
  BY <1>1, <1>2, StoredBytes
<1>4. CASE mem' = mem
  BY <1>4, QuietContract
<1>5. CASE DOMAIN mem' # {}
  <2>1. Written' = TRUE
    BY <1>5, Zenon DEF Written
  <2>2. Uboot' \in BOOLEAN /\ (Uboot' => ddr)
    BY Zenon DEF Uboot
  <2>3. Running' = Running
    BY Zenon DEF Running
  <2>4. Contract!Write
    BY <2>1, <2>2, <2>3, Zenon DEF Contract!Write, Uboot, Written, Running
  <2>. QED
    BY <2>4, Zenon DEF Contract!Next
<1>. QED
  BY <1>3, <1>4, <1>5

\* A board whose DDR does not work yet has no U-Boot in memory.
LEMMA NoUbootBeforeDdr ==
  ASSUME IInv, ~ddr PROVE ~UbootInPlace
<1>. SUFFICES ASSUME UbootInPlace PROVE FALSE
  OBVIOUS
<1>1. PICK l \in Nat : l = Length("tpl") /\ l > 0
  BY SetupTyped DEF IInv, TypeInv, UbootInPlace, Given
<1>2. 0 \in 0 .. Length("tpl") - 1
  BY <1>1
<1>3. PICK a \in Nat : a = (IF setup.tool = "boot" THEN UBOOT_LOAD ELSE UBOOT_ADDR)
  OBVIOUS
<1>4. a + 0 = a /\ a \in DOMAIN mem /\ mem[a] = <<"tpl", 0>>
  <2>1. a + 0 = a
    OBVIOUS
  <2>2. Holds("tpl", a)
    BY <1>3, Zenon DEF UbootInPlace
  <2>. QED
    BY <1>2, <2>1, <2>2 DEF Holds
<1>. QED
  BY <1>4 DEF IInv, NoUbootYet

\* A run is the initialisation of DDR or the start of U-Boot.
LEMMA RunContract ==
  ASSUME IInv, NEW addr, RunAt(addr), Connected, UNCHANGED <<setup, mem>>,
         \/ pc \in Preparing
         \/ pc = "run" /\ Boots
  PROVE [Contract!Next]_(Contract!vars)
<1>1. Boots /\ (pc \in Preparing => ~Starts)
      /\ (pc = "run" => ddr /\ UbootInPlace)
  BY DEF IInv, TypeInv, Starts, NoFipYet, DdrWorks, UbootKept, UbootWritten, Boots
<1>2. Stays(addr) \/ Initialises \/ (Starts /\ ddr /\ UbootInPlace) \/ Crash
  BY <1>1, RunOutcomes
<1>3. UbootInPlace' <=> UbootInPlace
  BY DEF UbootInPlace, Given, Holds, Length
<1>4. Written' = Written
  BY Zenon DEF Written
<1>5. CASE Stays(addr) \/ Crash
  BY <1>5, QuietContract DEF Stays, Crash
<1>6. CASE Initialises
  <2>1. ddr' = TRUE /\ started' = started
    BY <1>6 DEF Initialises
  <2>2. Uboot' <=> UbootInPlace
    BY <1>3, <2>1 DEF Uboot
  <2>3. CASE ddr
    <3>1. Uboot <=> UbootInPlace
      BY <2>3 DEF Uboot
    <3>2. Uboot' = Uboot /\ Running' = Running
      <4>1. (Running' <=> Running) /\ (Uboot' <=> Uboot)
        BY <1>1, <2>1, <2>2, <3>1 DEF Running, Boots
      <4>. QED
        BY <4>1, Zenon DEF Running, Uboot
    <3>3. Contract!InitDdr
      BY <1>4, <2>1, <3>2, Zenon DEF Contract!InitDdr, Uboot, Written, Running
    <3>. QED
      BY <3>3, Zenon DEF Contract!Next
  <2>4. CASE ~ddr
    <3>1. ~UbootInPlace
      BY <2>4, NoUbootBeforeDdr
    <3>2. Uboot' = Uboot /\ Running' = Running
      <4>1. (Running' <=> Running) /\ (Uboot' <=> Uboot)
        BY <1>1, <2>1, <2>2, <3>1 DEF Running, Boots, Uboot
      <4>. QED
        BY <4>1, Zenon DEF Running, Uboot
    <3>3. Contract!InitDdr
      BY <1>4, <2>1, <3>2, Zenon DEF Contract!InitDdr, Uboot, Written, Running
    <3>. QED
      BY <3>3, Zenon DEF Contract!Next
  <2>. QED
    BY <2>3, <2>4
<1>7. CASE Starts /\ ddr /\ UbootInPlace
  <2>1. Uboot /\ Uboot' /\ Running' /\ ddr' = ddr
    BY <1>3, <1>7 DEF Starts, Uboot, Running
  <2>2. Uboot' = Uboot /\ Running' = TRUE
    BY <2>1, Zenon DEF Running, Uboot
  <2>3. Contract!Start
    BY <1>4, <2>1, <2>2, Zenon DEF Contract!Start, Uboot, Written, Running
  <2>. QED
    BY <2>3, Zenon DEF Contract!Next
<1>. QED
  BY <1>2, <1>5, <1>6, <1>7

LEMMA CommandContract ==
  ASSUME IInv, Command PROVE UNCHANGED Contract!vars
<1>1. /\ UNCHANGED <<setup, ddr, mem>> /\ ~Boots /\ ddr
  BY DEF Command, IInv, DdrWorks, Boots
<1>2. UbootInPlace' <=> UbootInPlace
  BY <1>1 DEF UbootInPlace, Given, Holds, Length
<1>3. /\ Uboot' <=> Uboot
      /\ Written' <=> Written
      /\ Running' <=> Running
  BY <1>1, <1>2 DEF Uboot, Written, Running, Boots
<1>. QED
  BY <1>1, <1>3, SameContract

LEMMA PowerLossContract ==
  ASSUME PowerLoss PROVE Contract!PowerUp
<1>1. ddr' = FALSE /\ DOMAIN mem' = {} /\ ~started'
  BY DEF PowerLoss
<1>2. ~Uboot' /\ ~Written' /\ ~Running'
  BY <1>1 DEF Uboot, Written, Running
<1>3. Uboot' = FALSE /\ Written' = FALSE /\ Running' = FALSE
  BY <1>2, Zenon DEF Uboot, Written, Running
<1>. QED
  BY <1>1, <1>3, Zenon DEF Contract!PowerUp, Uboot, Written, Running

LEMMA NextContract == IInv /\ [Next]_vars => [Contract!Next]_(Contract!vars)
<1>. SUFFICES ASSUME IInv, [Next]_vars PROVE [Contract!Next]_(Contract!vars)
  OBVIOUS
<1>1. CASE UNCHANGED <<setup, ddr, mem, started>>
  BY <1>1, QuietContract
<1>2. CASE WriteFile
  <2>1. CASE UNCHANGED mem
    BY <1>2, <2>1, <1>1 DEF WriteFile
  <2>2. CASE ~Refused(Writes[next])
    <3>1. PICK pad \in {0, 1} :
            mem' = Stored(Writes[next], Length(Writes[next].file), pad)
      BY <1>2, <2>2 DEF WriteFile
    <3>2. Length(Writes[next].file) \in Nat
      BY <1>2, WriteInHand DEF WriteFile, IInv, TypeInv, Preparing
    <3>3. /\ UNCHANGED <<setup, ddr, started>>
          /\ pc \in {"init", "load"} /\ next <= Len(Writes)
      BY <1>2 DEF WriteFile
    <3>. QED
      BY <3>1, <3>2, <3>3, WriteContract
  <2>. QED
    BY <1>2, <2>1, <2>2 DEF WriteFile
<1>3. CASE WriteCut
  <2>1. PICK n \in 0 .. Length(Writes[next].file) - 1 :
          mem' = Stored(Writes[next], n, 0)
    BY <1>3 DEF WriteCut
  <2>2. /\ n \in Nat /\ UNCHANGED <<setup, ddr, started>>
        /\ pc \in {"init", "load"} /\ next <= Len(Writes)
    BY <1>3 DEF WriteCut
  <2>. QED
    BY <2>1, <2>2, WriteContract
<1>4. CASE RunDdr \/ RunParams \/ RunUboot
  BY <1>4, RunContract DEF RunDdr, RunParams, RunUboot, Preparing, Boots
<1>5. CASE Command
  BY <1>5, CommandContract
<1>6. CASE PowerLoss
  BY <1>6, PowerLossContract, Zenon DEF Contract!Next
<1>7. CASE Find \/ Identify \/ Loaded \/ UsbError \/ Plug \/ UNCHANGED vars
  BY <1>1, <1>7 DEF Find, Identify, Loaded, UsbError, Plug, vars
<1>. QED
  BY <1>2, <1>3, <1>4, <1>5, <1>6, <1>7 DEF Next, HostNext

\* boot.py, chainUboot.py and runKernel.py keep the boot contract: U-Boot is
\* written to DDR that works, and started with all of it in place.
THEOREM ToolsKeepContract == Spec => UsbKeepsContract
BY InitContract, NextContract, Invariance, PTL DEF Spec, UsbKeepsContract, Contract!Spec
=============================================================================
