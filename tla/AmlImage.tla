------------------------------ MODULE AmlImage ------------------------------
(***************************************************************************)
(* The items of a firmware image (AmlImagePack and AmlImageItem of         *)
(* amlimage.py).  Every item keeps a cursor of its own, while the items of *)
(* an upgrade package share one file handle; the items of a directory have *)
(* a file each, and the text of a VERIFY item is generated.                *)
(*                                                                         *)
(* The byte at position p of file f is the pair <<f, p>>.                  *)
(***************************************************************************)
EXTENDS Integers, Sequences

CONSTANTS
    Images,         \* images considered: files (their lengths) and items
    TextLength,     \* length of "sha1sum <digest>", 48 in the code
    MaxSeek         \* bound on the arguments of the library's users

ASSUME ImageAssumption == TextLength \in Nat /\ MaxSeek \in Nat

\* The fields of an item (AmlImageItem); offsets and sizes are unsigned.
ItemType == [main : STRING, sub : STRING, type : STRING, file : Nat, offset : Nat,
             size : Nat, verify : BOOLEAN, of : STRING]

\* Every item has its bytes in a file of the image.
ASSUME ImagesAssumption ==
    \A im \in Images :
        /\ im.items \in Seq(ItemType) /\ im.files \in Seq(Nat)
        /\ \A i \in DOMAIN im.items : im.items[i].file \in DOMAIN im.files

VARIABLES
    image,
    cursor,         \* cur_offset of each item
    fpos,           \* position of each file handle
    got             \* what the last read returned

itemVars == <<cursor, fpos, got>>

MinOf(a, b) == IF a < b THEN a ELSE b
MaxOf(a, b) == IF a > b THEN a ELSE b

Item(i) == image.items[i]

\* An entry of the image.cfg in a directory: the file itself and, in the
\* section LIST_VERIFY, a generated text that is given the size of the file.
\* What is not normal counts as sparse.
DirItems(entry, file) ==
    LET Named(m, f, v) == [main |-> m, sub |-> entry.sub,
                           type |-> IF entry.type = "normal" THEN "normal" ELSE "sparse",
                           file |-> f, offset |-> 0, size |-> entry.size,
                           verify |-> v, of |-> entry.main]
    IN  IF entry.verify
        THEN <<Named(entry.main, file, TRUE), Named("VERIFY", file + 1, FALSE)>>
        ELSE <<Named(entry.main, file, FALSE)>>

DirFiles(entry) == IF entry.verify THEN <<entry.size, TextLength>> ELSE <<entry.size>>

\* _opendir: the entries in order.
OpenDir(entries) ==
    LET build[n \in 0 .. Len(entries)] ==
          IF n = 0 THEN [magic |-> TRUE, version |-> 2, table |-> 0,
                         files |-> <<>>, items |-> <<>>]
          ELSE LET before == build[n - 1]
               IN  [before EXCEPT
                      !.files = @ \o DirFiles(entries[n]),
                      !.items = @ \o DirItems(entries[n], Len(before.files) + 1)]
    IN  build[Len(entries)]

\* _open: the header, its magic number and version, and the table of items.
Openable ==
    /\ image.magic /\ image.version \in {1, 2}
    /\ image.items # <<>> => image.files[1] >= image.table

ImageInit ==
    /\ image \in Images
    /\ cursor = [i \in DOMAIN image.items |-> 0]
    /\ fpos = [f \in DOMAIN image.files |-> 0]
    /\ got = <<>>

\* item_cmp: an empty argument matches everything.
Matches(i, main, sub) ==
    (main = "" \/ main = Item(i).main) /\ (sub = "" \/ sub = Item(i).sub)

\* item_get: the first match, 0 when there is none and ValueError is raised.
ItemGet(main, sub) ==
    LET found == {i \in DOMAIN image.items : Matches(i, main, sub)}
    IN  IF found = {} THEN 0 ELSE CHOOSE i \in found : \A j \in found : i <= j

\* file_type: KeyError for any other value.
KnownTypes == {"normal", "sparse"}

\* Bytes asked of the file; -1 stands for the rest.
ReadSize(i, n) ==
    IF n = -1 \/ cursor[i] + n > Item(i).size THEN Item(i).size - cursor[i] ELSE n

\* Mutant of ReadPosition: the read goes on where the handle is.
HandlePosition(i) == fpos[Item(i).file]

\* Every read seeks first.
ReadPosition(i) == Item(i).offset + cursor[i]

\* What a file holds of n bytes.
FileBytes(f, from, n) ==
    [k \in 1 .. MinOf(n, MaxOf(0, image.files[f] - from)) |-> <<f, from + k - 1>>]

\* The cursor moves by what was asked for, also at the end of a cut file.
Read(i, n) ==
    LET data == FileBytes(Item(i).file, ReadPosition(i), ReadSize(i, n))
    IN  /\ got' = data
        /\ fpos' = [fpos EXCEPT ![Item(i).file] = ReadPosition(i) + Len(data)]
        /\ cursor' = [cursor EXCEPT ![i] = @ + ReadSize(i, n)]

\* The end of the item is a limit in every mode.
SeekTarget(i, pos, whence) ==
    MinOf(Item(i).size,
          IF whence = 0 THEN pos
          ELSE MaxOf(0, pos + (IF whence = 1 THEN cursor[i] ELSE Item(i).size)))

\* A negative absolute position is refused.
Seek(i, pos, whence) ==
    /\ whence = 0 => pos >= 0
    /\ cursor' = [cursor EXCEPT ![i] = SeekTarget(i, pos, whence)]
    /\ UNCHANGED <<fpos, got>>

\* A user of the library reads and seeks as it likes.
Next ==
    \E i \in DOMAIN image.items :
        /\ \/ \E n \in -1 .. MaxSeek : Read(i, n)
           \/ \E pos \in -MaxSeek .. MaxSeek, whence \in 0 .. 2 : Seek(i, pos, whence)
        /\ UNCHANGED image

Spec == ImageInit /\ [][Next]_<<image, itemVars>>

----------------------------------------------------------------------------

\* What is there of an item.
Content(i) == FileBytes(Item(i).file, Item(i).offset, Item(i).size)

Files == INSTANCE ItemFiles WITH
    contents <- [i \in DOMAIN image.items |-> Content(i)],
    sizes <- [i \in DOMAIN image.items |-> Item(i).size],
    position <- cursor

\* Whatever is read and sought in whatever order, items that share a handle
\* behave like files of their own: no read returns a byte of a neighbour, and
\* none moves the position of another item (AmlImageItem.read and seek).
ItemsAreFiles == Files!Spec
=============================================================================
