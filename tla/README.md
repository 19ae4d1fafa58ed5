# Verification of pyamlboot

TLA+ models of the USB boot and burn protocols of pyamlboot, the TLC runs that
check them and the TLAPS proofs about them. The source of every definition is
in `PROJECT.json` under `map`.

## The system

pyamlboot talks to Amlogic SoCs over USB. A board is, at any moment, in one of
three loaders: the boot ROM (IPL), the SPL (BL2) or the TPL (U-Boot). The host
is always a single sequential program; the concurrency is that between the host
and the device, which leaves the bus, comes back in another stage, asks for
data in its own order, answers late, resets, or loses power.

| component | source | state | hard behaviour | what makes it correct |
|---|---|---|---|---|
| large memory transfers | `pyamlboot.py` 205-316 | offsets, block and transfer counts | boundaries, 16-bit count, padding, a failure in mid-chunk | bytes moved are a prefix, each in place |
| ADNL burn | `adnl.py` | stage, endpoints, chunk, partition | stages restart USB, the device chooses chunks, commands fail, INFO replies | success only with every image in storage |
| Optimus burn, plan | `optimus.py` 763-836 and the reads of the steps, `ubt.py` | items by name, cursors | names twice, cut files, digests generated or missing | the right items once, each whole and from its start |
| Optimus burn, boot phase | `optimus.py` 106-529, 745-760 | handle, step, secure flag | four SoC variants, the board resets between steps | right image, unlocked board, U-Boot reached |
| Optimus burn, U-Boot phase | `optimus.py` 75-103, 532-650 | command, block, resend count | acknowledgements of several attempts on one pipe | no partition passed with a block missing |
| AMLC boot (G12) | `pyamlboot.py` 367-493, `boot-g12.py`, `optimus.py` 326-364 | last request, sequence | the end is a repeated request, nested limits, one-byte sequence | BL2 has all it wanted, in place |
| boot of GX/AXG boards | `boot.py` | last identification | stale identification, refused files, power loss | U-Boot started only when all of it is there |
| tools for a running U-Boot | `chainUboot.py`, `runKernel.py` | none | addresses too close, escaping, command length | what was given reaches the kernel |
| image files | `amlimage.py` | one cursor per item, one handle per package | shared handle, reads past the end | every item behaves as a file |
| platform configuration | `optimus.py` 653-719 | parsers left | keys twice, defaults | the first line of a key counts |
| checksums, simple memory, register operations | `pyamlboot.py` 78-187, 452-471, `optimus.py` 437-456, `adnl.py` 123-195 | none | numeric edges | equal to their reference |
| `bulkcmd.py`, `aml_image_packer.py`, USB backend, packaging | | none | none | not modelled: output and I/O |

The components meet in the calls: `ubt.py` opens the image and picks the ADNL
or the Optimus burn; the Optimus burn plans its steps from the items, boots the
board with large memory transfers or the AMLC loop, then talks to U-Boot;
`boot.py` and the small tools use the same transfers. Two promises are shared
and stated abstractly: `BurnContract` by both burns, `BootContract` by
everything that starts a U-Boot.

## The modules

| module | models |
|---|---|
| `Blocks` | the ceiling division all chunked transfers repeat |
| `LargeMemory` | `writeLargeMemory`, `readLargeMemory` and their per-transfer helpers |
| `AdnlDevice` | the device of the ADNL protocol and its faults (external) |
| `Adnl`, `AdnlProps` | `do_adnl_burn` and all it calls, composed with the device; its properties |
| `OptimusBoot` | `do_burn` over the steps up to U-Boot, composed with the board |
| `OptimusMedia` | the commands and media downloads after that, composed with U-Boot |
| `AmlcBoot` | the AMLC loop and the transfers under it, composed with BL2 |
| `AmlImage` | an image file or directory, its items and their cursors |
| `BurnPlan` | `ubt.py`, `get_burn_steps` and every read of an item, on top of `AmlImage` |
| `BootUsb` | `boot.py`, `chainUboot.py`, `runKernel.py`, composed with the board |
| `Checksums`, `PlatformConf`, `CommandLine`, `SmallTransfers` | pure helpers as operators |
| `Helpers` | a machine that enumerates their inputs, and their reference definitions |
| `BurnContract`, `BootContract`, `ItemFiles` | abstract specifications |
| `LargeMemoryProofs`, `AmlcBootProofs`, `OptimusMediaProofs`, `OptimusBootProofs`, `AdnlProofs`, `BootUsbProofs` | theorems about the module of that name |
| `BurnPlanProofs` | theorems about `AmlImage` and, on top of them, `BurnPlan` |
| `HelpersProofs` | theorems about the four modules of pure helpers, for inputs of every length |
| `MC...` | instances for TLC |

**LargeMemory.** A call is chosen in `Init`; `Announce` is the control transfer
of one chunk, `MoveBlock` one bulk packet, `EndTransfer` the bookkeeping after
it. The two helpers check the length per chunk (`Refuse`) and may fail at any
transfer (`UsbError`). Bytes are their indices, and `moved` relates host to
device indices. `MaxBlocks` stands for 65535, and a count is taken modulo
`MaxBlocks + 1` because `wIndex` has 16 bits.

**Adnl.** The straight-line parts of the host are tables of `send_cmd` calls
(`Script`), the branches and loops are actions; `HostSend` and `HostReceive`
are the two halves of `send_cmd`, so the device can act between them. A byte
of an item is the pair of item and position. The additive checksum of a buffer
is the set of its bytes: it cannot see an order, like the real one
(`Checksums`). The device serves what it was asked, chooses every chunk freely
among what it misses, and may reject a command, reset, corrupt a received byte,
store one wrongly or leave a command unanswered, at most `MaxFaults` times in
all. A command the device does not answer, because it went away, was disturbed
or never had the answer, ends in the timeout of the host (`HostUsbError`). Odd
setups have an SPL item longer than the boot ROM's `downloadsize`,
which is sent whole, and a U-Boot item shorter than the SPL asks for, whose
pieces are cut (`TplSlice`).

**OptimusBoot.** One action per exchange with the board and the branch taken on
it. A handle is the number of the enumeration it was opened in, so a handle
kept over a restart is stale. The board starts in the ROM, in an SPL, in
U-Boot, in a stage the code does not name (`ODD`) or off the bus, and knows the
four ways the code provides for: back to the ROM after the SPL with or without
parameters, staying in the SPL, asking for U-Boot by AMLC. The AMLC loop is one
action with the three ends `AmlcBoot` shows: all sent, ended by a repeated
request, or failed. `setup.prompt` says that the board has left the bus by the
time `wait_device` looks for it again; the code only waits 0.2 s for that. Both
kinds of board are checked; `StagesMatch` and `BootCompletes` are stated for
the prompt ones, all other properties for both.

**OptimusMedia.** `work` is what the device was sent, `replies` the one bulk IN
pipe. A short write, an error answer or `Continue` replies make attempts and
answers overlap; `download get_status` and `verify` decide in the end. The
clock of the two read loops is `left`, counted in the naps of 3 s that follow a
`Continue`: one fits into the 3 s of most commands, three into the 10 s of a
block. The code compares the time after each nap, so that once all the naps
that fit were slept it depends on what the reads took whether it reads once more
(`Nap`). A read that raises may take any part of the time (`ReadFails`).
The checksum of a block, which raises for some lengths, belongs to what was
read of the image and is in `BurnPlan`.

**AmlcBoot.** Three nested limits (piece, transfer, packet) with the fields of
the control transfer, the AMLS with its one-byte sequence number, and the end
by repetition. Lengths are in bytes, as BL2 asks for pieces that are no
multiple of a block (`PROTOCOL.md` 582-598). `_amlsChecksum` raises when one
byte is left at the end of the data (`ChecksumRaises`): the piece was sent, the
AMLS is not, and the boot fails.

**AmlImage and ItemFiles.** Byte `p` of file `f` is the pair `<<f, p>>`. A
package is one file with its items behind each other, possibly cut anywhere; a
directory has a file per item and a generated text, given the size of the
partition, for each VERIFY item. `ItemFiles` is what a user of items expects,
files of their own; `ItemsAreFiles` is the refinement. Offsets an image carries
in its own `cur_offset` fields are taken as 0.

**BurnPlan.** It extends `AmlImage`, so that every read moves the cursors and
the handle. `Collect` is the loop over the items, `Plan` the list of steps;
`BootJobs` are the reads of the loader steps in each of the flows
`OptimusBoot` explores, `PartJobs` the downloads. Both checksums raise at the
lengths where the code does: that of U-Boot after it was loaded once
(`ChksumRaises`), that of a block before it is sent (`AmlsChecksumRaises`). An
ADNL burn reads and seeks the items in any order (`AdnlReads`); what it sends
is the matter of `Adnl`. Of U-Boot only the download
status and the comparison of a digest matter here. `Outcome` states on which
images a burn succeeds: what is cut, missing, or of a type without a name.
A configuration that is cut counts as lacking a required line.

**BootUsb.** A setup is a tool, its files, and the behaviour of BL2 (returns to
the ROM, stays, or stays for the first run only). A file is written as a whole
or cut short; memory is a function from addresses to bytes of files, and DDR
keeps nothing before it was initialised. A BL2 that stays works from
`BL2_PARAMS` when it is run there, so what is executed is what was written
last. `Outcome` states what becomes of a call without faults. `chainUboot.py` and `runKernel.py` find
a U-Boot that runs already, so for them the contract's `started` is true from the
beginning and constrains no start; what `chainUboot.py` starts is in
`StartsWhole` and `CallEndsAs`, and what `runKernel.py` starts in the latter.

Alternatives with overlapping guards are written with `IF`, the source's first
match, so that no branch depends on the order in which `CASE` is evaluated. A
loop of the code that goes over data is a recursive function `upTo[n]`, its
state after `n` elements.

**Helpers.** Each helper is an operator translated from the code and compared
with a reference written another way, on inputs that grow one byte, line,
character, address or register operation at a time. The shell of U-Boot is the
one the comment in `runKernel.py` describes, the register operations those of
the docstrings. `ReadMemory` is the loop of `readMemory`, round by round, with
the `append` that raises; that a read of a whole chunk fails follows from it.

**BurnContract.** Content of each partition and the outcome: erased before
anything is written, written in order, never touched when finished, success
only when every partition holds its image. `AdnlProps` and `OptimusMedia` each
instantiate it with a refinement mapping. In the Optimus burn a partition
without a VERIFY item counts as written on the word of the device.

**BootContract.** No write to a locked board, no U-Boot in memory that does not
work, no start before all of it is there; a board that powers up has lost
everything. `OptimusBoot` and `BootUsb` implement it. The latter has no locked
boards: `boot.py` does not know passwords.

Operators introduced by "Mutant of" are plausible faults of the definition that
follows; they are used only to test that a property can fail.

## The runs

| run | shows |
|---|---|
| `large_memory` | all lengths to 26 with block lengths 1 to 5 and 3 blocks per transfer: up to nine chunks, ragged tails, padding; `IInv`, here and in the next ones, is the invariant of the proofs and contains the types |
| `adnl` | safety of the burn and the contract with two faults at any two points, 2 partitions of 4 bytes, a U-Boot of 3, pieces of 1 to 3, healthy and odd boards and images; without faults a healthy burn succeeds, with one it ends or waits for the device |
| `optimus_boot` | all SoC variants and starting stages, secure and locked boards, right, wrong and missing passwords, incomplete images, a reset anywhere; `IInv` and the boot contract |
| `optimus_media` | three faults, 2 partitions of 2 blocks, `IInv` and the contract; the burn ends however often U-Boot asks for patience, and in success without faults if no job takes all its time |
| `amlc_boot` | pieces of 1 to 10 bytes in any order, images shorter and longer than wanted, one fault, more pieces than the sequence byte allows; `IInv` |
| `burn_plan` | packages with every order, name clash, cut and length that matters and directories, over five boot flows, secure or not; on every image, also read in any order by an ADNL burn, the items are files of their own |
| `boot_usb` | loaders and payloads of every fit, three kinds of BL2, one failing exchange or power loss anywhere |
| `helpers` | 9 bytes, 7 lines, 6 characters, addresses and lengths to 11 with chunks of 3, three registers of 2 bits |

Four more runs show where the code contradicts its own words (`findings`). Each
states the documented property and TLC refutes it:

- `large_memory_padding`: the zeros of `appendZeros` do not fill a block;
- `optimus_boot_by_chip`: the encrypt register is never chosen by chip id;
- `helpers_read_memory`: `readMemory` raises for 64 bytes and more, as `bytes` have
  no `append`;
- `helpers_chipinfo`: `get_chipinfo` refuses a range that ends with the page.

Other behaviours worth knowing are stated in the form that holds:

- A secure board found in its SPL is taken for one that is not and is sent the
  plain U-Boot (`RightImageKind` excepts it; `OPTIMUS.md` 30-31 would have the
  encrypted one).
- `StageAgrees` holds without faults only. After a reset the device with
  another address is the boot ROM, and the TPL commands go to it, because
  `run_tpl_stage` ignores the stage (`adnl.py:491`); the burn then fails, it
  does not pass a partition (`BurnedIntact`).
- An ADNL image without a VERIFY item for a partition fails after that
  partition was written (`adnl.py:302`), although `ADNL.md:40` makes the check
  optional; an Optimus image does so with KeyError (`BurnEndsAs`).
- An Optimus directory with a verified partition shorter than the text of its
  digest, or with two verified items of one sub type, cannot be burnt.
- U-Boot accepts `ubifs` (`OPTIMUS.md`), `file_type` does not.
- A loader file that is cut inside its last block is loaded without complaint
  (`PassesWhole`).
- `boot.py` refuses ragged files after earlier ones were written, and lets
  payloads overlap (`CallEndsAs`).
- `_amlsChecksum` raises for lengths 4k+1 and `_chksum` for odd ones
  (`ChecksumsAgree`). A BL2 that asks for such a piece cannot be booted
  (`NoSpuriousFailure`); a partition whose last block has 4k+1 bytes, and for some
  boards a U-Boot of an odd length, cannot be burnt (`BurnEndsAs`).
- After one `Continue:34` to a command with the usual 3 s, the next read must
  bring the answer; a second `Continue:34`, or a fourth `Continue:32` for one
  attempt of a block, ends the burn (`BurnCompletes`).
- `ADNL.md:13` names burnsteps `0xc0040002` where the code sends `0xC0040003`.
- The padding of `appendZeros` can make the last chunk one block longer than
  `wIndex` can count (`CountFits`, claimed only without padding).

**Bounds.** Two partitions are needed for "an earlier one is not touched"; a
third adds no new pair. Partition and chunk sizes make a chunk span several
packets and a partition several chunks, with a ragged last one. Two faults
cover a fault while another is being recovered from; three in `optimus_media`
together with the answers they leave on the pipe exhaust the resend limit.
Addresses are two: the code compares only with the last. The U-Boot of `adnl` has
three bytes, for pieces of two and one in either order. `InitPatience`,
`VerifyPatience` and `BlockPatience` are 2 instead of 20, 50 and 3: one nap may be
followed by another, and one more ends the wait; the proofs hold for all values.
`amlc_boot` has blocks of 2, transfers of 4 and pieces of up to 10 bytes, so that
a piece takes one to three transfers and has every length modulo 4; `SeqLimit` is
lowered to 4 so that pieces of other lengths than 4k+1 pass it. A block of
`burn_plan` has 4 bytes for the same reason. Items have up to three blocks, the
last one ragged, and files are cut at block boundaries and between them; the
arguments of reads and seeks (`MaxSeek`) reach past every item of an ADNL image. In `boot_usb` each payload
comes shorter than, as long as, and longer than its room. In `helpers` a byte
has one bit and a chunk three bytes, so that sums wrap, and chunks, the halves
of an address and the page end are crossed.

**Deadlock** is not checked where a program ends, and `wait_for_device` may
wait for a device that is gone.

**Fairness.** The host is a running program (`WF` on its step); every transfer
ends or times out. A device without fault answers within the timeouts of the
code and comes back on the bus after it left (`WF` on its steps). In `adnl` it
does not send INFO for ever (`SF` on the step that ends the job), as that loop has no
clock; in `optimus_media` it may send `Continue` for ever, and the clock of the
host ends the wait. In
`boot_usb` somebody switches the board on. Nothing is assumed about faults.

## The proofs

TLAPS proves every safety property and every refinement the passing runs check,
for every value of the constants; three properties of the Optimus boot phase
have a hypothesis, given there. The assumptions on the constants are named in
the modules, and TLC evaluates them in the runs:

- sizes and bounds are natural numbers, positive where the code divides by them,
  loops over them or needs one element;
- `SetupsAssumption` of `AdnlDevice` and `IsSetup` of `OptimusBoot` give the form
  of a board and an image: which stages exist, sizes are natural numbers;
- `ImagesAssumption` of `AmlImage`: an item has a file of the image to lie in, and
  its offset and size are unsigned, as in `AmlImgItemInfo`; it may well lie
  beyond the end of that file, or overlap another one;
- `AddressAssumption` of `BootUsb`: the addresses come in the order they have in
  `boot.py` 17-37 and `chainUboot.py` 13, for both families of boards;
  `SetupAssumption`: the files are there that the parsers require, and a U-Boot
  is not empty and ends below the script (it has 95 MB). How long the other
  files are is left open, so the payloads may overlap each other;
- `LinesAssumption` and `BaseAssumption` of the helpers: the lines a configuration
  starts with have a key and a value, and a byte has more than one value.

Every invariant was first checked by TLC on the instances of the runs.

**Large memory transfers** (`LargeMemoryProofs`): `Spec => []IInv`, and from it
type correctness, `PrefixInPlace`, `DoneComplete`, `RefusedAfterFullChunks` and
`UnpaddedCountFits`. None of the properties is inductive: that the right bytes
were moved at the end rests on `transferCount` being the number of chunks of
the rest (`RestInv`), on `offset` lying on a chunk boundary, and on host and
device standing at the same byte inside a chunk with enough blocks left
(`TransferInv`). The arithmetic comes first: one chunk less leaves one transfer
less (`TransfersShift`), also the ragged last one (`TransfersOne`).

**AMLC boot** (`AmlcBootProofs`): types, `InPlace`, `EndComplete` and
`NoSpuriousFailure` (`FailsForSeqOrSum`). The three nested loops have one conjunct each: what was
gathered of a piece is the prefix the loop over transfers has reached
(`DataInv`), inside a transfer BL2 expects the packet the host sends next
(`TransferInv`), and between pieces the request remembered is the last one
answered (`RequestInv`), for a place BL2 no longer misses unless it refused
(`AnswerInv`). The last one is what makes a repeated request an end. A
transfer that is followed by another has a length that is a multiple of the
unit of `wValue`, so no place is rounded (`WholeBlocks`).

**Optimus burn, U-Boot phase** (`OptimusMediaProofs`): types, `PassedWritten`,
`VerifiedIntact`, and that the burn implements `BurnContract`. Acknowledgements
of several attempts share a pipe and are taken for each other, so no invariant
ties an answer to a block. What does hold is about `success`: it can only be the
last answer, to a command that is waited for, with nothing left to do
(`SuccessInv`), because blocks are answered by OK and nothing else; and the jobs
still to be done concern the partition in hand (`WorkInv`).

**Optimus burn, boot phase** (`OptimusBootProofs`): types, `RightImageKind`,
`NeverHangs`, `StagesMatch`, and that the phase implements `BootContract`.
`StepInv` ties the exchange to the step of the plan, `DeviceInv` and `LockInv`
what the device holds to that, `StageInv` the stage to the exchange as long as
the device that was opened is there, and `KindInv` and `ArriveInv` what was
loaded. A reset invalidates the handle, which makes all of the last three
vacuous until the next `open`; what they may then assume again comes from
`DeviceInv` and `LockInv`, which hold without a handle. The three properties
are proved under `Supported`: no register given by chip id (the code then
reads address 0, see `findings`), and BL2 parameters in the image for a board
whose SPL waits for them (without them the code leaves such an SPL without a
command). Those are the boards of the run `optimus_boot`; types and the contract
need no such hypothesis.

**ADNL burn, partitions** (`AdnlProofs`, first part): `BurnedIntact` and
`BurnContract`. A partition is passed on the device's verdict, so the invariant says what must
hold from the moment the verdict is computed: the partition is intact, nothing
is marked as written and no data is expected (`VerdictInv`), hence neither a
late block nor a wrong store can spoil it. That needs the partition the device
has selected to be the one in the loop (`CurInv`), which commands can be in
flight (`PacketInv`, `FlightInv`), what the device takes the next packet for
(`ModeInv`), and, for the contract, that nothing is erased after something was
written (`UntouchedInv`, `BlankInv`). The scripts are analysed once, row by row
(`Rows`).

**ADNL burn, boot chain** (`AdnlProofs`, second part): `StageAgrees`,
`TplInPlace` and types, each with an invariant of its own on top of the one above.

- `WhereInv` says in which stage and under which address the device is in every
  section, as long as no fault happened. The core is `InTransit`: from the
  answer that announces a restart until `wait_for_device` returns, the device is
  either still there under the old address or back under another one. Comparing
  the address is therefore enough.
- `PlaceInv`: the checksum of a chunk does not see places, so three facts have to
  meet. Host and SPL stand at the same byte (`ChunkInv`); a corrupt byte is
  never part of a sum the host announces, so equal sums mean that nothing
  corrupt was received (`LoadedInv`); and what the SPL received begins at the
  offset it asked for, as nothing is received before it asks, also when the
  board was reset and started again while a command was in flight (`EarlyInv`).
- `FormInv` and `CountInv`: bytes received, in flight and in the host's hands
  never exceed what the device asked for, and what it asked for lies in the
  partition.

**Image files** (`BurnPlanProofs`, first part): `ItemsAreFiles`, that the items
of every image implement `ItemFiles`. The items of a package share one handle,
so what an item returns could depend on what was read of another one. It does
not, because a read seeks first (`ReadPosition`); what has to be proved is that
the bytes at that position, cut by the end of the item and by the end of the
file, are those `ItemFiles` returns at the cursor. The invariant is
`CursorsWithin`: no cursor leaves its item, which is what keeps a read from the
bytes of the next one. The steps of a burn only read and seek, so the same
holds in every burn (`PlanReadsFiles`).

**Optimus burn, plan** (`BurnPlanProofs`, second part): `PassesWhole` and
`RightSteps`, from `PlanInv`:

- `PlanType`: jobs and phases; once begun, the jobs are those the image and the
  board determine (`AllJobs`);
- `Progress`: what a job has sent is the prefix of its item up to the cursor, and
  the counter of `_download_file` does not run ahead of it by more than a block;
- `Untouched`: that prefix begins at the first byte although `_download_media`,
  unlike `_download_file` and `_update_ddr`, does not rewind: nothing but its own
  job moves the cursor of an item for storage, and no two jobs burn the same
  item;
- `Found` and `BurnedSoFar`: no job that needed an item was passed without one, and
  what was burnt is the part of the plan up to the job in hand.

`RightSteps` then is a statement about the plan alone: the sequence `Collect`
builds has each name once, at the place of its first item. It is proved by
following `JobsUpTo` item by item.

**Boot of GX and AXG boards** (`BootUsbProofs`): that `boot.py`, `chainUboot.py`
and `runKernel.py` implement `BootContract`, and that U-Boot is started only with
all of it in place (`StartsWhole`). The files are written to one memory, so
the core is that no file reaches into another that is still needed: `DdrWorks`
(a board that answers after the second identification has run the DDR loader),
`UbootKept` (the payload, however long, lies behind U-Boot), `NoUbootYet` and
`NoFipYet` (before that, neither U-Boot nor the parameters that start it are
in memory, so that the runs that set up the DDR cannot start anything).

**Helpers** (`HelpersProofs`):

- `CommandLinesSurvive`: after any number of characters, the shell has put out
  exactly those and is within the quotes (`Typed`). The two replacements of
  `runKernel.py` in a row amount to one replacement of each character by its
  own escape sequence, which is why their order matters.
- `PlatformsSound`: after `n` lines a parser is gone exactly when its key was
  among them, and the value is that of its first line, unless one of these
  could not be parsed (`ParsedTo`).
- `TransfersAreSound`: the chunks of a simple transfer are numbered by division,
  so that each place belongs to exactly one of them; the loop of `readMemory` is
  followed round by round (`ReadMemoryIs`); addresses are put back
  together from their halves; each register operation is compared with its
  docstring bit by bit.
- `ChecksumsAreOne`: the sum of the words of a buffer is the sum of its bytes by
  weight, word by word; reducing after every addition, as two of the three do,
  or once at the end, as `adnl_checksum` does, gives the same remainder.

The induction theorems of the library take an operator as a parameter, which
the provers cannot instantiate. Induction is done over sets instead
(`SetInduction`): the numbers for which a fact fails have no least element,
hence there are none. That a recursive function exists, and hence satisfies
its equation, is shown in the same way: for every `n` there is a function up to
`n` that obeys the equation step by step (`StepwiseExists`, `PiecewiseExists`).

**Only model-checked** are the liveness properties and what rests on them:
`Terminates`, `BurnCompletes`, `BootCompletes`, `StopsOrWaits`, `Stops`, `Ends`,
`BurnEndsAs` and `CallEndsAs`, which say how a call ends and not only what holds when it
has. They need fairness and `ENABLED`, which are out of the prover's reach.

## Not modelled

The contents of parameter blocks and registers, texts, and timing other than
its order and the clock of the two read loops of `OptimusMedia`. A bulk write that
takes fewer bytes than it was given: `writeMedia` compares the count and is
modelled, the large memory transfers and the AMLC packets ignore it. That the
checksum of a media block raises is followed in `BurnPlan`, where lengths are
known, and not in `OptimusMedia`. Names of items are opaque, and what a directory lists exists. USB
errors leave every call by an exception, so all of them are one action per
module. `identify` of the SoC is taken as the stage; its formatting, option
parsing, `--no-escape` (the text is then passed as it is), `bulkcmd.py` (one
exchange, printed), `aml_image_packer.py` (prints the items), the choice of a
libusb library and packaging hold no protocol state. What the devices do is
taken from how the code uses them; what a boot ROM does with more bytes than
it announced, and what U-Boot does with commands nobody sends, is not in the
source. The composition of `OptimusBoot` with `BurnPlan` in one state space is
not explored: they meet in `BootJobs` and in the items a setup has.

## Plan

1. Done: `LargeMemory` with proofs; the two burns; `AmlcBoot`; images and
   plans; `BootUsb`; the helpers; the contracts.
2. Done: the proofs about all of them, that is every safety property and every
   refinement the passing runs check.
3. Open: liveness, by hand or with another prover; and one state space for
   `BurnPlan` and `OptimusBoot`, if the reads of a step ever come to depend on
   the answers of the board beyond its flow.
