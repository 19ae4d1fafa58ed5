--------------------------- MODULE BurnPlanProofs ---------------------------
(***************************************************************************)
(* Proofs about AmlImage and BurnPlan for every set of images and boards   *)
(* and all block lengths: whatever their items, whether they share a file  *)
(* or not, and wherever a file is cut.  The items behave like files of     *)
(* their own (ItemsImplementFiles); a burn sends each item from its first  *)
(* byte on (EveryJobWhole), and one that is done has burnt the right items *)
(* (BurnsTheRightItems).  Both rest on PlanInv.                            *)
(***************************************************************************)
EXTENDS BurnPlan, SequenceTheorems, WellFoundedInduction, TLAPS

----------------------------------------------------------------------------
(* The items of an image and the bytes of its files. *)

\* Every item of an image has a file, an offset and a size.
LEMMA ItemTyped ==
  ASSUME image \in Images, NEW i \in DOMAIN image.items
  PROVE /\ Item(i).file \in DOMAIN image.files
        /\ Item(i).offset \in Nat
        /\ Item(i).size \in Nat
        /\ image.files[Item(i).file] \in Nat
<1>1. image.items \in Seq(ItemType) /\ image.files \in Seq(Nat)
      /\ image.items[i].file \in DOMAIN image.files
  BY ImagesAssumption
<1>2. image.items[i] \in ItemType
  BY <1>1
<1>3. image.files[image.items[i].file] \in Nat
  BY <1>1
<1>. QED
  BY <1>1, <1>2, <1>3 DEF Item, ItemType

\* How much of a file a request reaches.
Reached(f, from, n) == MinOf(n, MaxOf(0, image.files[f] - from))

LEMMA ReachedFrom ==
  ASSUME NEW f, NEW from \in Nat, NEW c \in Nat, NEW size \in Nat,
         NEW n \in Nat, c + n <= size, image.files[f] \in Nat, NEW k \in Nat \ {0}
  PROVE k <= Reached(f, from + c, n) <=> k <= n /\ c + k <= Reached(f, from, size)
BY DEF Reached, MinOf, MaxOf

LEMMA ReachedType ==
  ASSUME NEW f, NEW from \in Nat, NEW n \in Nat, image.files[f] \in Nat
  PROVE Reached(f, from, n) \in 0 .. n
BY DEF Reached, MinOf, MaxOf

\* The bytes of a request are a sequence of that length.
LEMMA FileBytesLength ==
  ASSUME NEW f, NEW from \in Nat, NEW n \in Nat, image.files[f] \in Nat
  PROVE /\ FileBytes(f, from, n) \in Seq({f} \X Nat)
        /\ Len(FileBytes(f, from, n)) = Reached(f, from, n)
        /\ DOMAIN FileBytes(f, from, n) = 1 .. Reached(f, from, n)
        /\ \A k \in 1 .. Reached(f, from, n) :
              FileBytes(f, from, n)[k] = <<f, from + k - 1>>
<1>1. PICK r \in Nat : r = Reached(f, from, n)
  <2>1. Reached(f, from, n) \in 0 .. n
    BY ReachedType
  <2>. QED
    BY <2>1
<1>2. FileBytes(f, from, n) = [k \in 1 .. r |-> <<f, from + k - 1>>]
  BY <1>1 DEF FileBytes, Reached
<1>3. \A k \in 1 .. r : <<f, from + k - 1>> \in {f} \X Nat
  OBVIOUS
<1>4. FileBytes(f, from, n) \in [1 .. r -> {f} \X Nat]
  BY <1>2, <1>3
<1>5. FileBytes(f, from, n) \in Seq({f} \X Nat)
  BY <1>4
<1>. QED
  BY <1>1, <1>2, <1>4, <1>5

LEMMA BytesCounted ==
  ASSUME NEW f, NEW from \in Nat, NEW n \in Nat, image.files[f] \in Nat
  PROVE Len(FileBytes(f, from, n)) = Reached(f, from, n)
BY FileBytesLength

LEMMA BytesTyped ==
  ASSUME NEW f, NEW from \in Nat, NEW n \in Nat, image.files[f] \in Nat
  PROVE FileBytes(f, from, n) \in Seq({f} \X Nat)
BY FileBytesLength

----------------------------------------------------------------------------
(* The cursors: read and seek keep them within their items. *)

CursorsWithin ==
    /\ image \in Images
    /\ cursor \in [DOMAIN image.items -> Nat]
    /\ \A i \in DOMAIN image.items : cursor[i] <= Item(i).size

\* A read asks for no more than is left of the item.
LEMMA ReadSizeType ==
  ASSUME CursorsWithin, NEW i \in DOMAIN image.items, NEW n \in Nat \cup {-1}
  PROVE ReadSize(i, n) \in 0 .. Item(i).size - cursor[i]
<1>1. Item(i).size \in Nat /\ cursor[i] \in Nat /\ cursor[i] <= Item(i).size
  BY ItemTyped DEF CursorsWithin
<1>. QED
  BY <1>1 DEF ReadSize

\* A seek ends within the item.
LEMMA SeekTargetType ==
  ASSUME CursorsWithin, NEW i \in DOMAIN image.items, NEW pos \in Int,
         NEW whence \in 0 .. 2, whence = 0 => pos >= 0
  PROVE SeekTarget(i, pos, whence) \in 0 .. Item(i).size
<1>1. Item(i).size \in Nat /\ cursor[i] \in Nat
  BY ItemTyped DEF CursorsWithin
<1>. QED
  BY <1>1 DEF SeekTarget, MinOf, MaxOf

LEMMA ReadKeepsCursors ==
  ASSUME CursorsWithin, NEW i \in DOMAIN image.items, NEW n \in Nat \cup {-1},
         Read(i, n), image' = image
  PROVE CursorsWithin'
<1>1. ReadSize(i, n) \in 0 .. Item(i).size - cursor[i]
  BY ReadSizeType
<1>2. Item(i).size \in Nat /\ cursor[i] \in Nat
  BY ItemTyped DEF CursorsWithin
<1>3. cursor' = [cursor EXCEPT ![i] = cursor[i] + ReadSize(i, n)]
  BY DEF Read
<1>4. cursor[i] + ReadSize(i, n) \in 0 .. Item(i).size
  BY <1>1, <1>2
<1>. QED
  BY <1>3, <1>4 DEF CursorsWithin, Item

LEMMA SeekKeepsCursors ==
  ASSUME CursorsWithin, NEW i \in DOMAIN image.items, NEW pos \in Int,
         NEW whence \in 0 .. 2, Seek(i, pos, whence), image' = image
  PROVE CursorsWithin'
<1>1. SeekTarget(i, pos, whence) \in 0 .. Item(i).size
  BY SeekTargetType DEF Seek
<1>2. cursor' = [cursor EXCEPT ![i] = SeekTarget(i, pos, whence)]
  BY DEF Seek
<1>3. Item(i).size \in Nat
  BY ItemTyped DEF CursorsWithin
<1>. QED
  BY <1>1, <1>2, <1>3 DEF CursorsWithin, Item

LEMMA InitCursors == ImageInit => CursorsWithin
<1>. SUFFICES ASSUME ImageInit PROVE CursorsWithin
  OBVIOUS
<1>1. \A i \in DOMAIN image.items : Item(i).size \in Nat
  BY ItemTyped DEF ImageInit
<1>. QED
  BY <1>1 DEF ImageInit, CursorsWithin

LEMMA NextCursors == CursorsWithin /\ [Next]_<<image, itemVars>> => CursorsWithin'
<1>. SUFFICES ASSUME CursorsWithin, [Next]_<<image, itemVars>> PROVE CursorsWithin'
  OBVIOUS
<1>1. CASE Next
  <2>1. PICK i \in DOMAIN image.items :
          /\ \/ \E n \in -1 .. MaxSeek : Read(i, n)
             \/ \E pos \in -MaxSeek .. MaxSeek, whence \in 0 .. 2 : Seek(i, pos, whence)
          /\ image' = image
    BY <1>1 DEF Next
  <2>2. ASSUME NEW n \in -1 .. MaxSeek, Read(i, n) PROVE CursorsWithin'
    <3>1. n \in Nat \cup {-1}
      OBVIOUS
    <3>. QED
      BY <2>1, <2>2, <3>1, ReadKeepsCursors
  <2>3. ASSUME NEW pos \in -MaxSeek .. MaxSeek, NEW whence \in 0 .. 2,
               Seek(i, pos, whence)
        PROVE CursorsWithin'
    <3>1. pos \in Int
      OBVIOUS
    <3>. QED
      BY <2>1, <2>3, <3>1, SeekKeepsCursors
  <2>. QED
    BY <2>1, <2>2, <2>3
<1>2. CASE UNCHANGED <<image, itemVars>>
  BY <1>2 DEF itemVars, CursorsWithin, Item
<1>. QED
  BY <1>1, <1>2

\* The cursor of an item never leaves it (AmlImageItem.read and seek).
THEOREM CursorsSound == Spec => []CursorsWithin
BY InitCursors, NextCursors, PTL DEF Spec

----------------------------------------------------------------------------
(* Every step is one of files that have nothing to do with each other. *)

\* What a read returns is the part of the item behind the cursor, whatever
\* file the item is in and whoever used its handle before.
LEMMA ReadReturns ==
  ASSUME CursorsWithin, NEW i \in DOMAIN image.items, NEW n \in Nat,
         n <= Item(i).size - cursor[i]
  PROVE FileBytes(Item(i).file, ReadPosition(i), n)
          = [k \in {k \in 1 .. n : cursor[i] + k <= Len(Content(i))} |->
                Content(i)[cursor[i] + k]]
<1>a. PICK f : f = Item(i).file
  OBVIOUS
<1>b. PICK o \in Nat : o = Item(i).offset
  BY ItemTyped DEF CursorsWithin
<1>c. PICK c \in Nat, size \in Nat : c = cursor[i] /\ size = Item(i).size
  BY ItemTyped DEF CursorsWithin
<1>1. f = Item(i).file /\ o = Item(i).offset /\ c = cursor[i] /\ size = Item(i).size
  BY <1>a, <1>b, <1>c
<1>2. image.files[f] \in Nat /\ c + n <= size /\ o + c \in Nat
  <2>1. image.files[Item(i).file] \in Nat
    BY ItemTyped DEF CursorsWithin
  <2>2. c + n <= size
    BY <1>1
  <2>. QED
    BY <1>1, <2>1, <2>2
<1>3. PICK r \in Nat : r = Reached(f, o + c, n)
  <2>1. Reached(f, o + c, n) \in 0 .. n
    BY <1>2, ReachedType
  <2>. QED
    BY <2>1
<1>4. PICK all \in Nat : all = Reached(f, o, size)
  <2>1. Reached(f, o, size) \in 0 .. size
    BY <1>2, ReachedType
  <2>. QED
    BY <2>1
<1>5. Len(Content(i)) = all /\ \A k \in 1 .. all : Content(i)[k] = <<f, o + k - 1>>
  <2>1. Content(i) = FileBytes(f, o, size)
    BY <1>1 DEF Content
  <2>2. /\ Len(FileBytes(f, o, size)) = Reached(f, o, size)
        /\ \A k \in 1 .. Reached(f, o, size) :
              FileBytes(f, o, size)[k] = <<f, o + k - 1>>
    BY <1>2, FileBytesLength
  <2>. QED
    BY <1>4, <2>1, <2>2
<1>6. \A k \in Nat \ {0} : k <= r <=> k <= n /\ c + k <= all
  BY <1>2, <1>3, <1>4, ReachedFrom
<1>7. {k \in 1 .. n : c + k <= all} = 1 .. r
  <2>1. \A k \in Nat \ {0} : k <= r => k <= n
    BY <1>6
  <2>2. 1 .. r \subseteq {k \in 1 .. n : c + k <= all}
    BY <1>6, <2>1
  <2>3. {k \in 1 .. n : c + k <= all} \subseteq 1 .. r
    BY <1>6
  <2>. QED
    BY <2>2, <2>3
<1>8. ASSUME NEW k \in 1 .. r PROVE Content(i)[c + k] = <<f, o + c + k - 1>>
  <2>1. c + k \in 1 .. all /\ o + (c + k) - 1 = o + c + k - 1
    BY <1>6
  <2>. QED
    BY <1>5, <2>1
<1>9. FileBytes(f, o + c, n) = [k \in 1 .. r |-> <<f, o + c + k - 1>>]
  BY <1>3 DEF FileBytes, Reached
<1>10. FileBytes(f, o + c, n)
         = [k \in {k \in 1 .. n : c + k <= Len(Content(i))} |-> Content(i)[c + k]]
  BY <1>5, <1>7, <1>8, <1>9
<1>. QED
  BY <1>1, <1>10 DEF ReadPosition

LEMMA ReadIsFileRead ==
  ASSUME CursorsWithin, NEW i \in DOMAIN image.items, NEW n \in Nat \cup {-1},
         Read(i, n), image' = image
  PROVE Files!Read(i)
<1>1. PICK m \in Nat : m = ReadSize(i, n) /\ m <= Item(i).size - cursor[i]
  <2>1. Item(i).size \in Nat /\ cursor[i] \in Nat
    BY ItemTyped DEF CursorsWithin
  <2>. QED
    BY <2>1, ReadSizeType
<1>2. got' = FileBytes(Item(i).file, ReadPosition(i), m)
  BY <1>1 DEF Read
<1>3. cursor' = [cursor EXCEPT ![i] = cursor[i] + m]
  BY <1>1 DEF Read
<1>4. got' = [k \in {k \in 1 .. m : cursor[i] + k <= Len(Content(i))} |->
                 Content(i)[cursor[i] + k]]
  BY <1>1, <1>2, ReadReturns
<1>5. UNCHANGED <<[j \in DOMAIN image.items |-> Content(j)],
                  [j \in DOMAIN image.items |-> Item(j).size]>>
  BY DEF Content, FileBytes, Item
<1>6. [j \in DOMAIN image.items |-> Content(j)][i] = Content(i)
      /\ [j \in DOMAIN image.items |-> Item(j).size][i] = Item(i).size
  OBVIOUS
<1>7. m \in 0 .. Item(i).size - cursor[i]
  BY <1>1, ItemTyped DEF CursorsWithin
<1>. QED
  <2>. DEFINE contents == [j \in DOMAIN image.items |-> Content(j)]
              sizes == [j \in DOMAIN image.items |-> Item(j).size]
  <2>1. \E size \in 0 .. sizes[i] - cursor[i] :
           /\ cursor' = [cursor EXCEPT ![i] = cursor[i] + size]
           /\ got' = [k \in {k \in 1 .. size : cursor[i] + k <= Len(contents[i])} |->
                         contents[i][cursor[i] + k]]
    BY <1>3, <1>4, <1>6, <1>7, Zenon
  <2>. QED
    BY <1>5, <2>1, Zenon DEF Files!Read, Files!Move

LEMMA SeekIsFileSeek ==
  ASSUME CursorsWithin, NEW i \in DOMAIN image.items, NEW pos \in Int,
         NEW whence \in 0 .. 2, Seek(i, pos, whence), image' = image
  PROVE Files!Seek(i)
<1>1. SeekTarget(i, pos, whence) \in 0 .. Item(i).size
  BY SeekTargetType DEF Seek
<1>2. cursor' = [cursor EXCEPT ![i] = SeekTarget(i, pos, whence)] /\ got' = got
  BY DEF Seek
<1>3. UNCHANGED <<[j \in DOMAIN image.items |-> Content(j)],
                  [j \in DOMAIN image.items |-> Item(j).size]>>
  BY DEF Content, FileBytes, Item
<1>. QED
  BY <1>1, <1>2, <1>3 DEF Files!Seek, Files!Move

LEMMA InitIsFiles == ImageInit => Files!Init
BY DEF ImageInit, Files!Init

LEMMA NextIsFiles ==
  CursorsWithin /\ [Next]_<<image, itemVars>> => [Files!Next]_(Files!vars)
<1>. SUFFICES ASSUME CursorsWithin, [Next]_<<image, itemVars>>
              PROVE [Files!Next]_(Files!vars)
  OBVIOUS
<1>1. CASE Next
  <2>1. PICK i \in DOMAIN image.items :
          /\ \/ \E n \in -1 .. MaxSeek : Read(i, n)
             \/ \E pos \in -MaxSeek .. MaxSeek, whence \in 0 .. 2 : Seek(i, pos, whence)
          /\ image' = image
    BY <1>1 DEF Next
  <2>2. ASSUME NEW n \in -1 .. MaxSeek, Read(i, n) PROVE Files!Read(i)
    <3>1. n \in Nat \cup {-1}
      OBVIOUS
    <3>. QED
      BY <2>1, <2>2, <3>1, ReadIsFileRead
  <2>3. ASSUME NEW pos \in -MaxSeek .. MaxSeek, NEW whence \in 0 .. 2,
               Seek(i, pos, whence)
        PROVE Files!Seek(i)
    <3>1. pos \in Int
      OBVIOUS
    <3>. QED
      BY <2>1, <2>3, <3>1, SeekIsFileSeek
  <2>4. Files!Read(i) \/ Files!Seek(i)
    BY <2>1, <2>2, <2>3
  <2>. QED
    BY <2>4 DEF Files!Next
<1>2. CASE UNCHANGED <<image, itemVars>>
  <2>1. UNCHANGED <<[j \in DOMAIN image.items |-> Content(j)],
                    [j \in DOMAIN image.items |-> Item(j).size]>>
    BY <1>2 DEF Content, FileBytes, Item
  <2>. QED
    BY <1>2, <2>1 DEF itemVars, Files!vars
<1>. QED
  BY <1>1, <1>2

\* The items of every image behave like files of their own, in whatever order
\* they are read and sought (AmlImageItem.read and seek).
THEOREM ItemsImplementFiles == Spec => ItemsAreFiles
BY InitIsFiles, NextIsFiles, CursorsSound, PTL DEF Spec, ItemsAreFiles, Files!Spec

----------------------------------------------------------------------------
(* Induction over numbers, stated for sets. *)

LEMMA LeastNat ==
  ASSUME NEW T, T \subseteq Nat, T # {}
  PROVE \E m \in T : \A n \in T : m <= n
<1>. DEFINE R == OpToRel(<, Nat)
<1>1. \A x, y \in Nat : <<x, y>> \in R <=> x < y
  BY DEF OpToRel
<1>2. IsWellFoundedOn(R, Nat)
  BY NatLessThanWellFounded
<1>. HIDE DEF R
<1>3. PICK x \in T : \A y \in T : ~ (<<y, x>> \in R)
  BY <1>2, WFMin
<1>4. \A y \in T : x \in Nat /\ y \in Nat /\ ~ (y < x)
  BY <1>1, <1>3
<1>. QED
  BY <1>4

LEMMA GreatestNat ==
  ASSUME NEW N \in Nat, NEW T, T \subseteq 0 .. N, T # {}
  PROVE \E m \in T : \A n \in T : n <= m
<1>. DEFINE U == {k \in 0 .. N : N - k \in T}
<1>1. PICK t \in T : TRUE
  OBVIOUS
<1>2. N - t \in 0 .. N /\ N - (N - t) = t
  BY <1>1
<1>3. U # {} /\ U \subseteq Nat
  BY <1>2
<1>4. PICK k \in U : \A n \in U : k <= n
  BY <1>3, LeastNat
<1>5. N - k \in T
  BY <1>4
<1>6. ASSUME NEW n \in T PROVE n <= N - k
  <2>1. N - n \in 0 .. N /\ N - (N - n) = n
    OBVIOUS
  <2>2. k <= N - n
    BY <1>4, <2>1
  <2>. QED
    BY <1>4, <2>2
<1>. QED
  BY <1>5, <1>6

\* What holds of 0 and passes from a number to the next holds up to N.
LEMMA SetInduction ==
  ASSUME NEW N \in Nat, NEW P, 0 \in P,
         \A n \in 0 .. N - 1 : n \in P => n + 1 \in P
  PROVE 0 .. N \subseteq P
<1>. SUFFICES ASSUME (0 .. N) \ P # {} PROVE FALSE
  OBVIOUS
<1>1. PICK m \in (0 .. N) \ P : \A n \in (0 .. N) \ P : m <= n
  <2>1. (0 .. N) \ P \subseteq Nat
    OBVIOUS
  <2>. QED
    BY <2>1, LeastNat
<1>2. m # 0 /\ m \in Nat
  BY <1>1
<1>3. m - 1 \in 0 .. N - 1 /\ m - 1 < m /\ (m - 1) + 1 = m
  BY <1>1, <1>2
<1>4. m - 1 \in P
  BY <1>1, <1>3
<1>. QED
  BY <1>1, <1>3, <1>4

\* A sequence put together piece by piece exists, whatever the pieces are.
LEMMA PiecewiseExists ==
  ASSUME NEW N \in Nat, NEW piece
  PROVE \E f : f = [n \in 0 .. N |-> IF n = 0 THEN <<>> ELSE f[n - 1] \o piece[n]]
<1>. DEFINE Is(f, m) == f = [n \in 0 .. m |-> IF n = 0 THEN <<>> ELSE f[n - 1] \o piece[n]]
            P == {m \in Nat : \E f : Is(f, m)}
<1>1. 0 \in P
  <2>1. Is([n \in {0} |-> <<>>], 0)
    OBVIOUS
  <2>. QED
    BY <2>1
<1>2. ASSUME NEW m \in 0 .. N - 1, m \in P PROVE m + 1 \in P
  <2>1. PICK f : Is(f, m)
    BY <1>2
  <2>. DEFINE g == [n \in 0 .. m + 1 |-> IF n = m + 1 THEN f[m] \o piece[m + 1] ELSE f[n]]
  <2>2. ASSUME NEW n \in 0 .. m + 1
        PROVE g[n] = IF n = 0 THEN <<>> ELSE g[n - 1] \o piece[n]
    <3>1. CASE n = m + 1
      <4>1. n # 0 /\ n - 1 = m /\ m \in 0 .. m + 1 /\ m # m + 1
        BY <3>1
      <4>. QED
        BY <3>1, <4>1
    <3>2. CASE n # m + 1
      <4>1. n \in 0 .. m
        BY <3>2
      <4>2. f[n] = IF n = 0 THEN <<>> ELSE f[n - 1] \o piece[n]
        BY <2>1, <4>1
      <4>3. n # 0 => n - 1 \in 0 .. m + 1 /\ n - 1 # m + 1
        BY <4>1
      <4>. QED
        BY <3>2, <4>2, <4>3
    <3>. QED
      BY <3>1, <3>2
  <2>3. Is(g, m + 1)
    BY <2>2
  <2>4. m + 1 \in Nat
    OBVIOUS
  <2>. HIDE DEF g, Is
  <2>. QED
    BY <2>3, <2>4
<1>. HIDE DEF P
<1>3. 0 .. N \subseteq P
  BY <1>1, <1>2, SetInduction
<1>4. \E f : Is(f, N)
  <2>1. N \in P
    BY <1>3
  <2>. HIDE DEF Is
  <2>. QED
    BY <2>1 DEF P
<1>. QED
  BY <1>4, Zenon

----------------------------------------------------------------------------
(* The dictionaries of get_burn_steps. *)

LEMMA ItemsLength ==
  ASSUME image \in Images
  PROVE Len(image.items) \in Nat /\ DOMAIN image.items = 1 .. Len(image.items)
<1>1. image.items \in Seq(ItemType)
  BY ImagesAssumption
<1>. QED
  BY <1>1

\* The last item of a name, 0 when there is none.
LEMMA LastItemFound ==
  ASSUME image \in Images, NEW main, NEW sub
  PROVE /\ LastItem(main, sub) = 0 <=> Named(main, sub) = {}
        /\ LastItem(main, sub) # 0 => LastItem(main, sub) \in Named(main, sub)
        /\ \A j \in Named(main, sub) : j <= LastItem(main, sub)
<1>1. Named(main, sub) \subseteq 0 .. Len(image.items) /\ 0 \notin Named(main, sub)
  BY ItemsLength DEF Named
<1>2. CASE Named(main, sub) = {}
  BY <1>2 DEF LastItem
<1>3. CASE Named(main, sub) # {}
  <2>1. \E m \in Named(main, sub) : \A n \in Named(main, sub) : n <= m
    BY <1>1, <1>3, ItemsLength, GreatestNat
  <2>2. \A m, n \in Named(main, sub) : n <= m <=> m >= n
    BY <1>1
  <2>3. \E m \in Named(main, sub) : \A n \in Named(main, sub) : m >= n
    BY <2>1, <2>2
  <2>4. /\ LastItem(main, sub) \in Named(main, sub)
        /\ \A n \in Named(main, sub) : LastItem(main, sub) >= n
    <3>1. LastItem(main, sub)
            = CHOOSE m \in Named(main, sub) : \A n \in Named(main, sub) : m >= n
      BY <1>3 DEF LastItem
    <3>. QED
      BY <2>3, <3>1
  <2>. QED
    BY <1>1, <1>3, <2>2, <2>4
<1>. QED
  BY <1>2, <1>3

\* Every item has a last one of its name.
LEMMA LastOfName ==
  ASSUME image \in Images, NEW i \in DOMAIN image.items
  PROVE LastItem(Item(i).main, Item(i).sub) # 0
<1>1. i \in Named(Item(i).main, Item(i).sub)
  BY DEF Named
<1>. QED
  BY <1>1, LastItemFound

\* A name that items have has a first one.
LEMMA FirstOfName ==
  ASSUME image \in Images, NEW main, NEW sub, Named(main, sub) # {}
  PROVE \E i \in Named(main, sub) : \A j \in 1 .. i - 1 : j \notin Named(main, sub)
<1>1. Named(main, sub) \subseteq Nat
  BY ItemsLength DEF Named
<1>2. PICK i \in Named(main, sub) : \A j \in Named(main, sub) : i <= j
  BY <1>1, LeastNat
<1>3. \A j \in 1 .. i - 1 : j \notin Named(main, sub)
  BY <1>1, <1>2
<1>. QED
  BY <1>3

----------------------------------------------------------------------------
(* The steps of the partitions: one for each item that opens a step. *)

MediaJob(i) == Job("media", Item(i).main, PartName(i))

LEMMA JobsUpToStep ==
  ASSUME image \in Images, NEW n \in 0 .. Len(image.items)
  PROVE JobsUpTo[n] = IF n = 0 THEN <<>> ELSE JobsUpTo[n - 1] \o PartJob(n)
<1>. DEFINE N == Len(image.items)
            piece == [i \in 1 .. N |-> PartJob(i)]
<1>1. N \in Nat
  BY ItemsLength
<1>2. PICK f : f = [m \in 0 .. N |-> IF m = 0 THEN <<>> ELSE f[m - 1] \o piece[m]]
  <2>. HIDE DEF N, piece
  <2>. QED
    BY <1>1, PiecewiseExists
<1>3. \A m \in 0 .. N : m # 0 => piece[m] = PartJob(m)
  BY <1>1
<1>4. f = [m \in 0 .. N |-> IF m = 0 THEN <<>> ELSE f[m - 1] \o PartJob(m)]
  <2>. HIDE DEF N, piece
  <2>. QED
    BY <1>2, <1>3
<1>5. JobsUpTo = [m \in 0 .. N |-> IF m = 0 THEN <<>> ELSE JobsUpTo[m - 1] \o PartJob(m)]
  <2>. HIDE DEF piece
  <2>. QED
    BY <1>4, Zenon DEF JobsUpTo
<1>. HIDE DEF N, piece
<1>. QED
  BY <1>5, Zenon DEF N

\* The items that open a step, in order, and the jobs of the first n items.
IsIndex(p, n) ==
    /\ p \in Seq(DOMAIN image.items)
    /\ \A k \in 1 .. Len(p) : p[k] \in 1 .. n /\ IsPart(p[k])
    /\ \A i \in 1 .. n : IsPart(i) => \E k \in 1 .. Len(p) : p[k] = i
    /\ \A k, l \in 1 .. Len(p) : k < l => p[k] < p[l]
    /\ JobsUpTo[n] = [k \in 1 .. Len(p) |-> MediaJob(p[k])]

LEMMA IndexStep ==
  ASSUME image \in Images, NEW n \in 0 .. Len(image.items) - 1, NEW p, IsIndex(p, n)
  PROVE \E q : IsIndex(q, n + 1)
<1>1. /\ n + 1 \in DOMAIN image.items /\ n + 1 \in 0 .. Len(image.items)
      /\ n + 1 # 0 /\ (n + 1) - 1 = n /\ n \in Nat
  BY ItemsLength
<1>2. JobsUpTo[n + 1] = JobsUpTo[n] \o PartJob(n + 1)
  BY <1>1, JobsUpToStep
<1>3. /\ p \in Seq(DOMAIN image.items) /\ Len(p) \in Nat
      /\ \A k \in 1 .. Len(p) : p[k] \in 1 .. n /\ IsPart(p[k])
      /\ \A i \in 1 .. n : IsPart(i) => \E k \in 1 .. Len(p) : p[k] = i
      /\ \A k, l \in 1 .. Len(p) : k < l => p[k] < p[l]
      /\ JobsUpTo[n] = [k \in 1 .. Len(p) |-> MediaJob(p[k])]
  BY DEF IsIndex
<1>. DEFINE S == {MediaJob(i) : i \in DOMAIN image.items}
<1>4. \A k \in 1 .. Len(p) : p[k] \in DOMAIN image.items /\ MediaJob(p[k]) \in S
  BY <1>3
<1>5. JobsUpTo[n] \in Seq(S) /\ Len(JobsUpTo[n]) = Len(p)
  BY <1>3, <1>4
<1>6. CASE ~IsPart(n + 1)
  <2>1. PartJob(n + 1) = <<>>
    BY <1>6 DEF PartJob
  <2>2. JobsUpTo[n + 1] = JobsUpTo[n]
    <3>. HIDE DEF S
    <3>. QED
      BY <1>2, <1>5, <2>1, ConcatEmptySeq
  <2>3. \A i \in 1 .. n + 1 : i = n + 1 \/ i \in 1 .. n
    BY <1>1
  <2>4. IsIndex(p, n + 1)
    BY <1>3, <1>6, <2>2, <2>3 DEF IsIndex
  <2>. QED
    BY <2>4
<1>7. CASE IsPart(n + 1)
  <2>. DEFINE q == Append(p, n + 1)
  <2>1. /\ q \in Seq(DOMAIN image.items) /\ Len(q) = Len(p) + 1
        /\ \A k \in 1 .. Len(p) : q[k] = p[k]
        /\ q[Len(p) + 1] = n + 1
    <3>1. PICK D : D = DOMAIN image.items
      OBVIOUS
    <3>2. p \in Seq(D) /\ n + 1 \in D
      BY <1>1, <1>3, <3>1
    <3>3. /\ Append(p, n + 1) \in Seq(D) /\ Len(Append(p, n + 1)) = Len(p) + 1
          /\ \A k \in 1 .. Len(p) : Append(p, n + 1)[k] = p[k]
          /\ Append(p, n + 1)[Len(p) + 1] = n + 1
      BY <3>2, AppendProperties
    <3>. QED
      BY <3>1, <3>3
  <2>2. PartJob(n + 1) = <<MediaJob(n + 1)>> /\ MediaJob(n + 1) \in S
    BY <1>1, <1>7 DEF PartJob, MediaJob
  <2>3. /\ JobsUpTo[n + 1] \in Seq(S) /\ Len(JobsUpTo[n + 1]) = Len(p) + 1
        /\ \A k \in 1 .. Len(p) : JobsUpTo[n + 1][k] = JobsUpTo[n][k]
        /\ JobsUpTo[n + 1][Len(p) + 1] = MediaJob(n + 1)
    <3>1. <<MediaJob(n + 1)>> \in Seq(S) /\ Len(<<MediaJob(n + 1)>>) = 1
          /\ <<MediaJob(n + 1)>>[1] = MediaJob(n + 1)
      BY <2>2
    <3>. HIDE DEF S
    <3>. QED
      <4>1. PICK s, t : s = JobsUpTo[n] /\ t = <<MediaJob(n + 1)>>
        OBVIOUS
      <4>2. s \in Seq(S) /\ t \in Seq(S) /\ Len(s) = Len(p) /\ Len(t) = 1
        BY <1>5, <3>1, <4>1
      <4>3. /\ s \o t \in Seq(S) /\ Len(s \o t) = Len(s) + Len(t)
            /\ \A i \in 1 .. Len(s) + Len(t) :
                  (s \o t)[i] = IF i <= Len(s) THEN s[i] ELSE t[i - Len(s)]
        <5>1. s \in Seq(S) /\ t \in Seq(S)
          BY <4>2
        <5>. QED
          BY <5>1, ConcatProperties, Zenon
      <4>4. \A k \in 1 .. Len(p) : k \in 1 .. Len(p) + 1 /\ k <= Len(p)
        BY <1>3
      <4>5. Len(p) + 1 \in 1 .. Len(p) + 1 /\ ~(Len(p) + 1 <= Len(p))
            /\ Len(p) + 1 - Len(p) = 1
        BY <1>3
      <4>6. JobsUpTo[n + 1] = s \o t
        BY <1>2, <2>2, <4>1
      <4>. QED
        <5>1. JobsUpTo[n + 1] \in Seq(S) /\ Len(JobsUpTo[n + 1]) = Len(p) + 1
          BY <4>2, <4>3, <4>6
        <5>2. (s \o t)[Len(p) + 1] = t[1] /\ t[1] = MediaJob(n + 1)
          <6>1. PICK m \in Nat : m = Len(p)
            BY <1>3
          <6>2. \A i \in 1 .. m + 1 : (s \o t)[i] = IF i <= m THEN s[i] ELSE t[i - m]
            BY <4>2, <4>3, <6>1
          <6>3. m + 1 \in 1 .. m + 1 /\ ~(m + 1 <= m) /\ (m + 1) - m = 1
            OBVIOUS
          <6>4. (s \o t)[m + 1] = t[1]
            BY <6>2, <6>3
          <6>. QED
            BY <3>1, <4>1, <6>1, <6>4
        <5>3. \A k \in 1 .. Len(p) : (s \o t)[k] = s[k]
          BY <4>2, <4>3, <4>4
        <5>. QED
          BY <4>1, <4>6, <5>1, <5>2, <5>3
  <2>4. \A k \in 1 .. Len(p) + 1 : k \in 1 .. Len(p) \/ k = Len(p) + 1
    BY <1>3
  <2>5. \A k \in 1 .. Len(q) : JobsUpTo[n + 1][k] = MediaJob(q[k])
    <3>. HIDE DEF S, q
    <3>. QED
      BY <1>3, <2>1, <2>3, <2>4
  <2>6. JobsUpTo[n + 1] = [k \in 1 .. Len(q) |-> MediaJob(q[k])]
    <3>1. JobsUpTo[n + 1] = [k \in 1 .. Len(JobsUpTo[n + 1]) |-> JobsUpTo[n + 1][k]]
      <4>. HIDE DEF S
      <4>. QED
        BY <2>3
    <3>. HIDE DEF q
    <3>. QED
      BY <2>1, <2>3, <2>5, <3>1
  <2>. HIDE DEF q, S
  <2>7. \A k \in 1 .. Len(q) : q[k] \in 1 .. n + 1 /\ IsPart(q[k])
    <3>. SUFFICES ASSUME NEW k \in 1 .. Len(q) PROVE q[k] \in 1 .. n + 1 /\ IsPart(q[k])
      OBVIOUS
    <3>1. CASE k = Len(p) + 1
      BY <1>1, <1>7, <2>1, <3>1
    <3>2. CASE k \in 1 .. Len(p)
      <4>1. q[k] \in 1 .. n /\ IsPart(q[k])
        BY <1>3, <2>1, <3>2
      <4>. QED
        BY <1>1, <4>1
    <3>. QED
      BY <2>1, <2>4, <3>1, <3>2
  <2>8. ASSUME NEW i \in 1 .. n + 1, IsPart(i) PROVE \E k \in 1 .. Len(q) : q[k] = i
    <3>1. CASE i = n + 1
      BY <1>3, <2>1, <3>1
    <3>2. CASE i \in 1 .. n
      <4>1. PICK k \in 1 .. Len(p) : p[k] = i
        BY <1>3, <2>8, <3>2
      <4>. QED
        BY <1>3, <2>1, <4>1
    <3>. QED
      BY <1>1, <3>1, <3>2
  <2>9. ASSUME NEW k \in 1 .. Len(q), NEW l \in 1 .. Len(q), k < l PROVE q[k] < q[l]
    <3>1. k \in 1 .. Len(p)
      BY <1>3, <2>1, <2>9
    <3>2. CASE l \in 1 .. Len(p)
      BY <1>3, <2>1, <2>9, <3>1, <3>2
    <3>3. CASE l = Len(p) + 1
      <4>1. q[k] \in 1 .. n /\ q[l] = n + 1
        BY <1>3, <2>1, <3>1, <3>3
      <4>. QED
        BY <1>1, <4>1
    <3>. QED
      BY <2>1, <2>4, <3>2, <3>3
  <2>10. IsIndex(q, n + 1)
    BY <2>1, <2>6, <2>7, <2>8, <2>9 DEF IsIndex
  <2>. QED
    BY <2>10
<1>. QED
  BY <1>6, <1>7

\* The jobs of the partitions are those of the items that open a step.
LEMMA PartJobsIndex ==
  ASSUME image \in Images
  PROVE \E p : IsIndex(p, Len(image.items))
<1>. DEFINE N == Len(image.items)
            P == {n \in Nat : \E p : IsIndex(p, n)}
<1>1. N \in Nat
  BY ItemsLength
<1>2. 0 \in P
  <2>1. JobsUpTo[0] = <<>>
    BY <1>1, JobsUpToStep
  <2>2. <<>> = [k \in 1 .. Len(<<>>) |-> MediaJob(<<>>[k])]
    OBVIOUS
  <2>3. IsIndex(<<>>, 0)
    BY <2>1, <2>2 DEF IsIndex
  <2>. QED
    BY <2>3
<1>3. ASSUME NEW n \in 0 .. N - 1, n \in P PROVE n + 1 \in P
  <2>1. PICK p : IsIndex(p, n)
    BY <1>3
  <2>2. \E q : IsIndex(q, n + 1)
    BY <2>1, IndexStep
  <2>. QED
    BY <1>1, <2>2
<1>. HIDE DEF P, N
<1>4. 0 .. N \subseteq P
  BY <1>1, <1>2, <1>3, SetInduction
<1>. QED
  BY <1>1, <1>4 DEF P, N

----------------------------------------------------------------------------
(* The jobs of a burn. *)

AllJobs == BootJobs \o PartJobs
JobSource(j) == LastItem(j.main, j.sub)

\* The jobs of the boot phase read USB items only, and no item is read before
\* it was looked for.
LEMMA BootJobsShape ==
  /\ BootJobs \in Seq({HasDdr, HasUboot, Ddr, Uboot, Sum})
  /\ \A n \in 1 .. Len(BootJobs) :
        /\ BootJobs[n].kind \in {"find", "file", "sum"} /\ BootJobs[n].main = "USB"
        /\ BootJobs[n].kind # "find" =>
              \E m \in 1 .. n - 1 : BootJobs[m].kind = "find"
                                    /\ BootJobs[m].main = BootJobs[n].main
                                    /\ BootJobs[m].sub = BootJobs[n].sub
<1>. DEFINE S == {HasDdr, HasUboot, Ddr, Uboot, Sum}
<1>1. /\ HasDdr.kind = "find" /\ HasUboot.kind = "find" /\ Ddr.kind = "file"
      /\ Uboot.kind = "file" /\ Sum.kind = "sum"
      /\ \A j \in S : j.main = "USB"
      /\ HasDdr.sub = Ddr.sub /\ HasUboot.sub = Uboot.sub /\ HasUboot.sub = Sum.sub
  BY DEF HasDdr, HasUboot, Ddr, Uboot, Sum, Job
<1>2. CASE BootJobs = <<HasDdr, Ddr, HasUboot, Uboot, Ddr, Sum, Ddr>>
  <2>1. PICK b : b = BootJobs
    OBVIOUS
  <2>2. /\ b \in Seq(S) /\ Len(b) = 7
        /\ b[1] = HasDdr /\ b[2] = Ddr /\ b[3] = HasUboot /\ b[4] = Uboot
        /\ b[5] = Ddr /\ b[6] = Sum /\ b[7] = Ddr
    BY <1>2, <2>1
  <2>3. ASSUME NEW n \in 1 .. 7
        PROVE /\ b[n] \in S
              /\ b[n].kind # "find" =>
                    \E m \in 1 .. n - 1 : b[m].kind = "find" /\ b[m].sub = b[n].sub
    <3>1. CASE n \in {1, 3}
      BY <1>1, <2>2, <3>1
    <3>2. CASE n \in {2, 5, 7}
      <4>1. 1 \in 1 .. n - 1
        BY <3>2
      <4>. QED
        BY <1>1, <2>2, <3>2, <4>1
    <3>3. CASE n \in {4, 6}
      <4>1. 3 \in 1 .. n - 1
        BY <3>3
      <4>. QED
        BY <1>1, <2>2, <3>3, <4>1
    <3>. QED
      BY <3>1, <3>2, <3>3
  <2>. QED
    BY <1>1, <2>1, <2>2, <2>3
<1>3. CASE BootJobs = <<HasDdr, Ddr, HasUboot, Uboot, Sum>>
  <2>1. PICK b : b = BootJobs
    OBVIOUS
  <2>2. /\ b \in Seq(S) /\ Len(b) = 5
        /\ b[1] = HasDdr /\ b[2] = Ddr /\ b[3] = HasUboot /\ b[4] = Uboot
        /\ b[5] = Sum
    BY <1>3, <2>1
  <2>3. ASSUME NEW n \in 1 .. 5
        PROVE /\ b[n] \in S
              /\ b[n].kind # "find" =>
                    \E m \in 1 .. n - 1 : b[m].kind = "find" /\ b[m].sub = b[n].sub
    <3>1. CASE n \in {1, 3}
      BY <1>1, <2>2, <3>1
    <3>2. CASE n \in {2}
      <4>1. 1 \in 1 .. n - 1
        BY <3>2
      <4>. QED
        BY <1>1, <2>2, <3>2, <4>1
    <3>3. CASE n \in {4, 5}
      <4>1. 3 \in 1 .. n - 1
        BY <3>3
      <4>. QED
        BY <1>1, <2>2, <3>3, <4>1
    <3>. QED
      BY <3>1, <3>2, <3>3
  <2>. QED
    BY <1>1, <2>1, <2>2, <2>3
<1>4. CASE BootJobs = <<HasDdr, Ddr, HasUboot, Uboot, Ddr>>
  <2>1. PICK b : b = BootJobs
    OBVIOUS
  <2>2. /\ b \in Seq(S) /\ Len(b) = 5
        /\ b[1] = HasDdr /\ b[2] = Ddr /\ b[3] = HasUboot /\ b[4] = Uboot
        /\ b[5] = Ddr
    BY <1>4, <2>1
  <2>3. ASSUME NEW n \in 1 .. 5
        PROVE /\ b[n] \in S
              /\ b[n].kind # "find" =>
                    \E m \in 1 .. n - 1 : b[m].kind = "find" /\ b[m].sub = b[n].sub
    <3>1. CASE n \in {1, 3}
      BY <1>1, <2>2, <3>1
    <3>2. CASE n \in {2, 5}
      <4>1. 1 \in 1 .. n - 1
        BY <3>2
      <4>. QED
        BY <1>1, <2>2, <3>2, <4>1
    <3>3. CASE n \in {4}
      <4>1. 3 \in 1 .. n - 1
        BY <3>3
      <4>. QED
        BY <1>1, <2>2, <3>3, <4>1
    <3>. QED
      BY <3>1, <3>2, <3>3
  <2>. QED
    BY <1>1, <2>1, <2>2, <2>3
<1>5. CASE BootJobs = <<HasDdr, Ddr, HasUboot>>
  BY <1>1, <1>5
<1>6. CASE BootJobs = <<HasUboot>>
  BY <1>1, <1>6
<1>. QED
  BY <1>2, <1>3, <1>4, <1>5, <1>6 DEF BootJobs

\* The name of a step and what it stands for.
LEMMA PartJobSource ==
  ASSUME image \in Images, NEW i \in DOMAIN image.items, IsPart(i)
  PROVE LET s == JobSource(MediaJob(i))
        IN  /\ s # 0 /\ s \in DOMAIN image.items
            /\ Item(s).main = Item(i).main /\ Item(s).sub = PartName(i)
            /\ Item(s).main \in {"PARTITION", "dtb"}
<1>1. JobSource(MediaJob(i)) = LastItem(Item(i).main, PartName(i))
  BY DEF JobSource, MediaJob, Job
<1>2. LastItem(Item(i).main, PartName(i)) # 0
  <2>1. CASE PartName(i) = Item(i).sub
    BY <2>1, LastOfName
  <2>2. CASE PartName(i) # Item(i).sub
    BY <2>2 DEF PartName
  <2>. QED
    BY <2>1, <2>2
<1>3. LastItem(Item(i).main, PartName(i)) \in Named(Item(i).main, PartName(i))
  BY <1>2, LastItemFound
<1>. QED
  BY <1>1, <1>2, <1>3 DEF Named, IsPart

\* Two items that open steps have different names.
LEMMA PartNamesDiffer ==
  ASSUME image \in Images, NEW i \in DOMAIN image.items, NEW j \in DOMAIN image.items,
         IsPart(i), IsPart(j), i < j
  PROVE Item(i).main # Item(j).main \/ PartName(i) # PartName(j)
<1>1. i \in 1 .. j - 1
  BY ItemsLength
<1>2. Item(i).main # Item(j).main \/ Item(i).sub # Item(j).sub
  BY <1>1 DEF IsPart
<1>3. \A k \in DOMAIN image.items :
        PartName(k) # Item(k).sub =>
           Item(k).main = "dtb" /\ Item(k).sub = "meson1" /\ PartName(k) = "meson1_ENC"
  BY DEF PartName
<1>4. ~(Item(i).main = "dtb" /\ Item(i).sub = "meson1_ENC")
      /\ ~(Item(j).main = "dtb" /\ Item(j).sub = "meson1_ENC")
  BY DEF IsPart
<1>. QED
  BY <1>2, <1>3, <1>4

\* The jobs by number: those of the boot phase, then one for each item that
\* opens a step.
JobsAt(p) ==
    /\ IsIndex(p, Len(image.items))
    /\ Len(p) \in Nat /\ Len(BootJobs) \in Nat
    /\ Len(AllJobs) = Len(BootJobs) + Len(p)
    /\ \A n \in 1 .. Len(BootJobs) : AllJobs[n] = BootJobs[n]
    /\ \A k \in 1 .. Len(p) :
          p[k] \in DOMAIN image.items /\ IsPart(p[k])
          /\ AllJobs[Len(BootJobs) + k] = MediaJob(p[k])

LEMMA AllJobsShape == ASSUME image \in Images PROVE \E p : JobsAt(p)
<1>1. PICK p : IsIndex(p, Len(image.items))
  BY PartJobsIndex
<1>2. /\ p \in Seq(DOMAIN image.items) /\ Len(p) \in Nat
      /\ \A k \in 1 .. Len(p) : p[k] \in 1 .. Len(image.items) /\ IsPart(p[k])
      /\ PartJobs = [k \in 1 .. Len(p) |-> MediaJob(p[k])]
  BY <1>1 DEF IsIndex, PartJobs
<1>. DEFINE S == {HasDdr, HasUboot, Ddr, Uboot, Sum}
                   \cup {MediaJob(i) : i \in DOMAIN image.items}
<1>3. \A k \in 1 .. Len(p) : p[k] \in DOMAIN image.items /\ MediaJob(p[k]) \in S
  BY <1>2, ItemsLength
<1>4. /\ PartJobs \in Seq(S) /\ Len(PartJobs) = Len(p)
      /\ \A k \in 1 .. Len(p) : PartJobs[k] = MediaJob(p[k])
  <2>. HIDE DEF S
  <2>. QED
    BY <1>2, <1>3
<1>5. BootJobs \in Seq(S) /\ Len(BootJobs) \in Nat
  BY BootJobsShape
<1>6. PICK m \in Nat, l \in Nat : m = Len(BootJobs) /\ l = Len(p)
  BY <1>2, <1>5
<1>7. /\ Len(AllJobs) = m + l
      /\ \A n \in 1 .. m + l : AllJobs[n] = IF n <= m THEN BootJobs[n] ELSE PartJobs[n - m]
  <2>. HIDE DEF S
  <2>1. PICK s \in Seq(S), t \in Seq(S) : s = BootJobs /\ t = PartJobs
    BY <1>4, <1>5
  <2>2. /\ Len(s \o t) = Len(s) + Len(t)
        /\ \A i \in 1 .. Len(s) + Len(t) :
              (s \o t)[i] = IF i <= Len(s) THEN s[i] ELSE t[i - Len(s)]
    BY ConcatProperties
  <2>3. AllJobs = s \o t /\ Len(s) = m /\ Len(t) = l
    BY <1>4, <1>6, <2>1 DEF AllJobs
  <2>. QED
    BY <2>1, <2>2, <2>3
<1>8. \A n \in 1 .. m : n \in 1 .. m + l /\ n <= m
  OBVIOUS
<1>9. \A k \in 1 .. l : m + k \in 1 .. m + l /\ ~(m + k <= m) /\ (m + k) - m = k
  OBVIOUS
<1>10. \A k \in 1 .. l : AllJobs[m + k] = PartJobs[k]
  BY <1>7, <1>9
<1>11. \A n \in 1 .. m : AllJobs[n] = BootJobs[n]
  BY <1>7, <1>8
<1>12. JobsAt(p)
  <2>. HIDE DEF S
  <2>. QED
    BY <1>1, <1>2, <1>3, <1>4, <1>5, <1>6, <1>7, <1>10, <1>11 DEF JobsAt
<1>. QED
  BY <1>12

\* What every job is about, by its number.
LEMMA JobShape ==
  ASSUME image \in Images, NEW n \in 1 .. Len(AllJobs)
  PROVE /\ AllJobs[n].kind \in {"find", "file", "sum", "media"}
        /\ AllJobs[n].kind = "media" <=> n > Len(BootJobs)
        /\ AllJobs[n].kind # "media" => AllJobs[n].main = "USB"
        /\ AllJobs[n].kind \in {"file", "sum"} =>
              \E m \in 1 .. n - 1 : AllJobs[m].kind = "find"
                                    /\ JobSource(AllJobs[m]) = JobSource(AllJobs[n])
        /\ AllJobs[n].kind = "media" =>
              \E i \in DOMAIN image.items : IsPart(i) /\ AllJobs[n] = MediaJob(i)
<1>1. PICK p : JobsAt(p)
  BY AllJobsShape
<1>2. PICK b \in Nat, l \in Nat : b = Len(BootJobs) /\ l = Len(p) /\ Len(AllJobs) = b + l
  BY <1>1 DEF JobsAt
<1>3. CASE n <= b
  <2>1. n \in 1 .. b /\ \A m \in 1 .. n - 1 : m \in 1 .. b
    BY <1>2, <1>3
  <2>2. /\ BootJobs[n].kind \in {"find", "file", "sum"} /\ BootJobs[n].main = "USB"
        /\ BootJobs[n].kind # "find" =>
              \E m \in 1 .. n - 1 : BootJobs[m].kind = "find"
                                    /\ BootJobs[m].main = BootJobs[n].main
                                    /\ BootJobs[m].sub = BootJobs[n].sub
    BY <1>2, <2>1, BootJobsShape
  <2>3. \A m \in 1 .. b : AllJobs[m] = BootJobs[m]
    BY <1>1, <1>2 DEF JobsAt
  <2>4. AllJobs[n].kind \in {"file", "sum"} =>
           \E m \in 1 .. n - 1 : AllJobs[m].kind = "find"
                                 /\ JobSource(AllJobs[m]) = JobSource(AllJobs[n])
    BY <2>1, <2>2, <2>3 DEF JobSource
  <2>. QED
    BY <1>2, <1>3, <2>1, <2>2, <2>3, <2>4
<1>4. CASE n > b
  <2>1. PICK k \in 1 .. l : n = b + k
    <3>1. n - b \in 1 .. l /\ n = b + (n - b)
      BY <1>2, <1>4
    <3>. QED
      BY <3>1
  <2>2. AllJobs[n] = MediaJob(p[k]) /\ p[k] \in DOMAIN image.items /\ IsPart(p[k])
    BY <1>1, <1>2, <2>1 DEF JobsAt
  <2>3. MediaJob(p[k]).kind = "media"
    BY DEF MediaJob, Job
  <2>. QED
    BY <1>2, <1>4, <2>2, <2>3
<1>. QED
  BY <1>2, <1>3, <1>4

\* No two jobs that write to storage have the same item.
LEMMA MediaSourcesDiffer ==
  ASSUME image \in Images, NEW m \in 1 .. Len(AllJobs), NEW n \in 1 .. Len(AllJobs),
         m < n, AllJobs[m].kind = "media", AllJobs[n].kind = "media"
  PROVE JobSource(AllJobs[m]) # JobSource(AllJobs[n])
<1>1. PICK p : JobsAt(p)
  BY AllJobsShape
<1>2. PICK b \in Nat, l \in Nat : b = Len(BootJobs) /\ l = Len(p) /\ Len(AllJobs) = b + l
  BY <1>1 DEF JobsAt
<1>3. m > b /\ n > b
  BY <1>2, JobShape
<1>4. PICK k \in 1 .. l, h \in 1 .. l : m = b + k /\ n = b + h /\ k < h
  <2>1. m - b \in 1 .. l /\ n - b \in 1 .. l /\ m = b + (m - b) /\ n = b + (n - b)
        /\ m - b < n - b
    BY <1>2, <1>3
  <2>. QED
    BY <2>1
<1>5. /\ AllJobs[m] = MediaJob(p[k]) /\ p[k] \in DOMAIN image.items /\ IsPart(p[k])
      /\ AllJobs[n] = MediaJob(p[h]) /\ p[h] \in DOMAIN image.items /\ IsPart(p[h])
      /\ p[k] < p[h]
  BY <1>1, <1>2, <1>4 DEF JobsAt, IsIndex
<1>6. Item(p[k]).main # Item(p[h]).main \/ PartName(p[k]) # PartName(p[h])
  BY <1>5, PartNamesDiffer
<1>. QED
  BY <1>5, <1>6, PartJobSource

----------------------------------------------------------------------------
(* What is sent block by block. *)

\* A request that begins where another ended.
Joins(f, o, c, n) ==
    FileBytes(f, o, c) \o FileBytes(f, o + c, n) = FileBytes(f, o, c + n)

LEMMA BytesJoin ==
  ASSUME NEW f, NEW o \in Nat, NEW c \in Nat, NEW n \in Nat, image.files[f] \in Nat
  PROVE Joins(f, o, c, n)
<1>. DEFINE S == {f} \X Nat
<1>1. PICK a \in Nat : a = Reached(f, o, c)
  BY DEF Reached, MinOf, MaxOf
<1>2. PICK b \in Nat : b = Reached(f, o + c, n)
  BY DEF Reached, MinOf, MaxOf
<1>3. Reached(f, o, c + n) = a + b /\ (b > 0 => a = c)
  BY <1>1, <1>2 DEF Reached, MinOf, MaxOf
<1>4. PICK s : s = FileBytes(f, o, c)
  OBVIOUS
<1>5. PICK t : t = FileBytes(f, o + c, n)
  OBVIOUS
<1>6. PICK u : u = FileBytes(f, o, c + n)
  OBVIOUS
<1>7. s \in Seq(S) /\ Len(s) = a /\ \A k \in 1 .. a : s[k] = <<f, o + k - 1>>
  <2>1. /\ FileBytes(f, o, c) \in Seq({f} \X Nat)
        /\ Len(FileBytes(f, o, c)) = Reached(f, o, c)
        /\ \A k \in 1 .. Reached(f, o, c) : FileBytes(f, o, c)[k] = <<f, o + k - 1>>
    BY FileBytesLength, Zenon
  <2>. QED
    BY <1>1, <1>4, <2>1, Zenon
<1>8. t \in Seq(S) /\ Len(t) = b /\ \A k \in 1 .. b : t[k] = <<f, (o + c) + k - 1>>
  <2>1. o + c \in Nat
    OBVIOUS
  <2>. HIDE DEF S
  <2>. QED
    <3>1. /\ FileBytes(f, o + c, n) \in Seq({f} \X Nat)
          /\ Len(FileBytes(f, o + c, n)) = Reached(f, o + c, n)
          /\ \A k \in 1 .. Reached(f, o + c, n) :
                FileBytes(f, o + c, n)[k] = <<f, (o + c) + k - 1>>
      BY <2>1, FileBytesLength, Zenon
    <3>. QED
      BY <1>2, <1>5, <3>1, Zenon DEF S
<1>9. u \in Seq(S) /\ Len(u) = a + b /\ \A k \in 1 .. a + b : u[k] = <<f, o + k - 1>>
  <2>1. c + n \in Nat
    OBVIOUS
  <2>2. /\ FileBytes(f, o, c + n) \in Seq({f} \X Nat)
        /\ Len(FileBytes(f, o, c + n)) = Reached(f, o, c + n)
        /\ \A k \in 1 .. Reached(f, o, c + n) :
              FileBytes(f, o, c + n)[k] = <<f, o + k - 1>>
    BY <2>1, FileBytesLength
  <2>3. PICK r : r = Reached(f, o, c + n)
    OBVIOUS
  <2>. HIDE DEF S
  <2>4. u \in Seq(S) /\ Len(u) = r /\ \A k \in 1 .. r : u[k] = <<f, o + k - 1>>
    BY <1>6, <2>2, <2>3 DEF S
  <2>. QED
    BY <1>3, <2>3, <2>4
<1>. HIDE DEF S
<1>10. /\ s \o t \in Seq(S) /\ Len(s \o t) = a + b
       /\ \A k \in 1 .. a + b : (s \o t)[k] = IF k <= a THEN s[k] ELSE t[k - a]
  BY <1>7, <1>8, ConcatProperties
<1>11. ASSUME NEW k \in 1 .. a + b PROVE (s \o t)[k] = u[k]
  <2>0. u[k] = <<f, o + k - 1>> /\ (s \o t)[k] = IF k <= a THEN s[k] ELSE t[k - a]
    BY <1>9, <1>10
  <2>1. CASE k <= a
    <3>1. k \in 1 .. a
      BY <2>1
    <3>. QED
      BY <1>7, <2>0, <2>1, <3>1
  <2>2. CASE ~(k <= a)
    <3>1. k - a \in 1 .. b /\ b > 0
      BY <2>2
    <3>2. t[k - a] = <<f, (o + c) + (k - a) - 1>>
      BY <1>8, <3>1
    <3>3. (o + c) + (k - a) - 1 = o + k - 1
      BY <1>3, <3>1
    <3>. QED
      BY <2>0, <2>2, <3>2, <3>3
  <2>. QED
    BY <2>1, <2>2
<1>12. s \o t = u
  BY <1>9, <1>10, <1>11, SeqEqual
<1>. QED
  BY <1>4, <1>5, <1>6, <1>12 DEF Joins

\* Requests that reach as much are the same.
LEMMA BytesSame ==
  ASSUME NEW f, NEW o, NEW c, NEW d, Reached(f, o, c) = Reached(f, o, d)
  PROVE FileBytes(f, o, c) = FileBytes(f, o, d)
BY DEF FileBytes, Reached

\* A shorter request is the beginning of a longer one.
LEMMA BytesPrefix ==
  ASSUME NEW f, NEW o \in Nat, NEW c \in Nat, NEW d \in Nat, c <= d,
         image.files[f] \in Nat
  PROVE FileBytes(f, o, c)
          = SubSeq(FileBytes(f, o, d), 1, Len(FileBytes(f, o, c)))
<1>1. PICK a \in Nat, b \in Nat : a = Reached(f, o, c) /\ b = Reached(f, o, d) /\ a <= b
  <2>1. Reached(f, o, c) \in Nat /\ Reached(f, o, d) \in Nat
    BY ReachedType
  <2>2. Reached(f, o, c) <= Reached(f, o, d)
    BY DEF Reached, MinOf, MaxOf
  <2>. QED
    BY <2>1, <2>2
<1>2. PICK u : u = FileBytes(f, o, d)
  OBVIOUS
<1>3. Len(u) = b /\ \A k \in 1 .. b : u[k] = <<f, o + k - 1>>
  <2>1. /\ Len(FileBytes(f, o, d)) = Reached(f, o, d)
        /\ \A k \in 1 .. Reached(f, o, d) : FileBytes(f, o, d)[k] = <<f, o + k - 1>>
    BY FileBytesLength, Zenon
  <2>. QED
    BY <1>1, <1>2, <2>1, Zenon
<1>4. FileBytes(f, o, c) = [k \in 1 .. a |-> <<f, o + k - 1>>]
      /\ Len(FileBytes(f, o, c)) = a
  BY <1>1, FileBytesLength DEF FileBytes, Reached
<1>5. \A k \in 1 .. a : u[k] = <<f, o + k - 1>>
  BY <1>1, <1>3
<1>6. SubSeq(u, 1, a) = [k \in 1 .. a |-> u[k]]
  BY <1>2, <1>3
<1>7. SubSeq(u, 1, a) = [k \in 1 .. a |-> <<f, o + k - 1>>]
  BY <1>5, <1>6
<1>. QED
  BY <1>2, <1>4, <1>7

\* What a read adds to what was read of the item before: the bytes behind, and
\* none when the file or the item ends there.
LEMMA ReadAdds ==
  ASSUME CursorsWithin, NEW i \in DOMAIN image.items, NEW n \in Nat \cup {-1}, Read(i, n)
  PROVE LET before == FileBytes(Item(i).file, Item(i).offset, cursor[i])
            after == FileBytes(Item(i).file, Item(i).offset, cursor[i] + ReadSize(i, n))
        IN  /\ ReadSize(i, n) \in 0 .. Item(i).size - cursor[i]
            /\ cursor' = [cursor EXCEPT ![i] = cursor[i] + ReadSize(i, n)]
            /\ before \o got' = after
            /\ Len(before) \in Nat /\ Len(after) \in Nat
            /\ got' = <<>> => before = after
            /\ got' # <<>> => Len(before) = cursor[i] /\ Len(after) > cursor[i]
            /\ n > 0 /\ got' = <<>> => before = Content(i)
<1>1. PICK f : f = Item(i).file
  OBVIOUS
<1>2. PICK o \in Nat : o = Item(i).offset
  BY ItemTyped DEF CursorsWithin
<1>3. PICK c \in Nat, size \in Nat : c = cursor[i] /\ size = Item(i).size /\ c <= size
  BY ItemTyped DEF CursorsWithin
<1>4. PICK m \in Nat : m = ReadSize(i, n) /\ m \in 0 .. size - c
  <2>1. ReadSize(i, n) \in 0 .. size - c
    BY <1>3, ReadSizeType
  <2>. QED
    BY <1>3, <2>1
<1>5. image.files[f] \in Nat
  BY <1>1, ItemTyped DEF CursorsWithin
<1>6. got' = FileBytes(f, o + c, m) /\ cursor' = [cursor EXCEPT ![i] = c + m]
  BY <1>1, <1>2, <1>3, <1>4 DEF Read, ReadPosition
<1>7. FileBytes(f, o, c) \o got' = FileBytes(f, o, c + m)
  <2>1. FileBytes(f, o, c) \o FileBytes(f, o + c, m) = FileBytes(f, o, c + m)
    <3>1. Joins(f, o, c, m)
      BY <1>5, BytesJoin, Zenon
    <3>. QED
      BY <3>1 DEF Joins
  <2>. QED
    BY <1>6, <2>1, Zenon
<1>8. o + c \in Nat /\ c + m \in Nat
  OBVIOUS
<1>9. PICK a \in Nat, b \in Nat, r \in Nat, all \in Nat :
        /\ a = Reached(f, o, c) /\ b = Reached(f, o, c + m) /\ r = Reached(f, o + c, m)
        /\ all = Reached(f, o, size)
        /\ r = 0 => a = b
        /\ r > 0 => a = c /\ b > c
        /\ r = 0 /\ m > 0 => a = all
        /\ c = size => a = all
  <2>1. PICK a \in Nat : a = Reached(f, o, c)
    BY <1>5 DEF Reached, MinOf, MaxOf
  <2>2. PICK b \in Nat : b = Reached(f, o, c + m)
    BY <1>5 DEF Reached, MinOf, MaxOf
  <2>3. PICK r \in Nat : r = Reached(f, o + c, m)
    BY <1>5 DEF Reached, MinOf, MaxOf
  <2>4. PICK all \in Nat : all = Reached(f, o, size)
    BY <1>5 DEF Reached, MinOf, MaxOf
  <2>5. /\ r = 0 => a = b
        /\ r > 0 => a = c /\ b > c
        /\ r = 0 /\ m > 0 => a = all
        /\ c = size => a = all
    BY <1>4, <1>5, <2>1, <2>2, <2>3, <2>4, <1>3 DEF Reached, MinOf, MaxOf
  <2>. QED
    BY <2>1, <2>2, <2>3, <2>4, <2>5
<1>10. /\ Len(FileBytes(f, o, c)) = a /\ Len(FileBytes(f, o, c + m)) = b
       /\ Len(got') = r /\ (got' = <<>> <=> r = 0)
  <2>1. Len(FileBytes(f, o, c)) = a
    <3>1. Len(FileBytes(f, o, c)) = Reached(f, o, c)
      BY <1>5, BytesCounted, Zenon
    <3>. QED
      BY <1>9, <3>1, Zenon
  <2>2. Len(FileBytes(f, o, c + m)) = b
    <3>1. Len(FileBytes(f, o, c + m)) = Reached(f, o, c + m)
      BY <1>5, <1>8, BytesCounted, Zenon
    <3>. QED
      BY <1>9, <3>1, Zenon
  <2>3. Len(got') = r /\ got' \in Seq({f} \X Nat)
    <3>1. Len(got') = r
      <4>1. Len(FileBytes(f, o + c, m)) = Reached(f, o + c, m)
        BY <1>5, <1>8, BytesCounted, Zenon
      <4>. QED
        BY <1>6, <1>9, <4>1, Zenon
    <3>2. got' \in Seq({f} \X Nat)
      BY <1>5, <1>6, <1>8, BytesTyped
    <3>. QED
      BY <3>1, <3>2
  <2>4. got' = <<>> <=> r = 0
    BY <2>3, EmptySeq
  <2>. QED
    BY <2>1, <2>2, <2>3, <2>4
<1>11. got' = <<>> => FileBytes(f, o, c) = FileBytes(f, o, c + m)
  BY <1>9, <1>10, BytesSame
<1>12. n > 0 /\ got' = <<>> => FileBytes(f, o, c) = FileBytes(f, o, size)
  <2>1. n > 0 => m > 0 \/ c = size
    <3>1. n \in Int /\ (n > 0 => n # -1)
      OBVIOUS
    <3>. QED
      BY <1>3, <1>4, <3>1 DEF ReadSize
  <2>. QED
    BY <1>9, <1>10, <2>1, BytesSame
<1>13. Content(i) = FileBytes(f, o, size)
  BY <1>1, <1>2, <1>3 DEF Content
<1>. QED
  <2>1. /\ Len(FileBytes(f, o, c)) \in Nat /\ Len(FileBytes(f, o, c + m)) \in Nat
        /\ got' # <<>> => Len(FileBytes(f, o, c)) = c /\ Len(FileBytes(f, o, c + m)) > c
    BY <1>9, <1>10
  <2>. QED
    BY <1>1, <1>2, <1>3, <1>4, <1>6, <1>7, <1>11, <1>12, <1>13, <2>1

----------------------------------------------------------------------------
(* The invariant. *)

\* The jobs are fixed, and how many of them are finished.
Begun == pc \notin {"open", "choose", "collect", "adnl", "failed"}
Finished == IF pc \in {"next", "done"} THEN job ELSE job - 1

\* Where the program is while it works at a job.
Phases(kind) ==
    IF kind = "find" THEN {"find"}
    ELSE IF kind = "file" THEN {"file", "fileBlock", "fileEnd"}
    ELSE IF kind = "sum" THEN {"sum", "sumRead", "sumEnd"}
    ELSE {"media", "mediaBlock", "status", "verify"}

PlanType ==
    /\ CursorsWithin
    /\ scan \in 0 .. Len(image.items) /\ written \in Nat
    /\ pc \in {"open", "choose", "collect"} => job = 0 /\ sent = <<>> /\ burned = <<>>
    /\ Begun =>
        /\ jobs = AllJobs /\ job \in 0 .. Len(AllJobs)
        /\ \/ pc = "next"
           \/ pc = "done" /\ job = Len(AllJobs)
           \/ job > 0 /\ pc \in Phases(ThisJob.kind)

\* Items that were looked for are there.
Found ==
    Begun => \A n \in 1 .. Len(AllJobs) :
                n <= Finished /\ AllJobs[n].kind = "find" => JobSource(AllJobs[n]) # 0

\* Nothing but its own job moves the cursor of an item for storage.
Untouched ==
    pc \notin {"adnl", "failed"} =>
        \A i \in DOMAIN image.items :
            Item(i).main \in {"PARTITION", "dtb"} =>
                \/ cursor[i] = 0
                \/ Begun /\ \E n \in 1 .. Len(AllJobs) :
                      /\ AllJobs[n].kind = "media" /\ JobSource(AllJobs[n]) = i
                      /\ n < job \/ (n = job /\ pc # "media")

\* The jobs burnt are the ones that write to storage, so far.
BurnedSoFar ==
    Begun => burned = [k \in 1 .. MaxOf(0, Finished - Len(BootJobs)) |->
                          JobSource(AllJobs[Len(BootJobs) + k])]

\* The first c bytes of the item were sent, as far as they are there.
Sends(c) == sent = FileBytes(Item(Source).file, Item(Source).offset, c)

\* The counter of _download_file is a multiple of the block, and the block
\* before it was not empty.
FileProgress ==
    /\ \E k \in Nat : written = k * FileBlock
    /\ written < FileSize + FileBlock
    /\ written > 0 => Len(sent) > written - FileBlock

\* What was sent of the item in hand.
Progress ==
    Begun /\ pc # "done" /\ job > 0 /\ ThisJob.kind # "find" =>
        /\ Source \in DOMAIN image.items
        /\ pc \in {"file", "sum", "sumRead", "media"} => sent = <<>>
        /\ pc = "file" => written = 0
        /\ pc \in {"sumRead", "media"} => cursor[Source] = 0
        /\ pc \in {"fileBlock", "mediaBlock"} => Sends(cursor[Source])
        /\ pc = "fileBlock" =>
              FileProgress /\ cursor[Source] = MinOf(written, Item(Source).size)
        /\ pc = "fileEnd" => written < FileSize /\ Sends(cursor[Source])
        /\ pc \in {"status", "verify", "sumEnd"} => Sends(Item(Source).size)
        /\ pc = "verify" => Len(sent) = Item(Source).size
        /\ pc = "next" =>
              /\ ThisJob.kind = "file" =>
                    /\ FileProgress /\ written >= FileSize
                    /\ Sends(MinOf(written, Item(Source).size))
              /\ ThisJob.kind # "file" => Sends(Item(Source).size)
              /\ ThisJob.kind = "media" => Len(sent) = Item(Source).size

PlanInv == PlanType /\ Found /\ Untouched /\ BurnedSoFar /\ Progress

\* The image and the board stay what they are, and so does what follows from
\* them.
LEMMA Frame ==
  ASSUME image' = image, board' = board
  PROVE /\ AllJobs' = AllJobs /\ BootJobs' = BootJobs
        /\ \A i : Item(i)' = Item(i)
        /\ \A main, sub : LastItem(main, sub)' = LastItem(main, sub)
        /\ \A j : JobSource(j)' = JobSource(j)
        /\ \A f, o, c : FileBytes(f, o, c)' = FileBytes(f, o, c)
<1>1. BootJobs' = BootJobs
  BY DEF BootJobs, Ddr, Uboot, Sum, HasDdr, HasUboot, Job, Signed
<1>2. PartJobs' = PartJobs
  BY DEF PartJobs, JobsUpTo, PartJob, IsPart, PartName, Item, Job, LastItem, Named
<1>3. \A main, sub : LastItem(main, sub)' = LastItem(main, sub)
  BY DEF LastItem, Named, Item
<1>4. \A f, o, c : FileBytes(f, o, c)' = FileBytes(f, o, c)
  BY DEF FileBytes
<1>. QED
  BY <1>1, <1>2, <1>3, <1>4 DEF AllJobs, JobSource, Item

LEMMA FrameJob ==
  ASSUME image' = image, board' = board, jobs' = jobs, job' = job
  PROVE ThisJob' = ThisJob /\ Source' = Source /\ FileSize' = FileSize
<1>1. ThisJob' = ThisJob
  BY DEF ThisJob
<1>2. Source' = Source
  BY <1>1, Frame DEF Source, ThisJob
<1>3. Item(Source)' = Item(Source)
  BY <1>2 DEF Item
<1>. QED
  BY <1>1, <1>2, <1>3 DEF FileSize, Signed

\* The job in hand and the item it reads.
LEMMA InHand ==
  ASSUME PlanInv, Begun, pc # "done", job > 0
  PROVE /\ image \in Images /\ job \in 1 .. Len(AllJobs) /\ Len(AllJobs) \in Nat
        /\ ThisJob = AllJobs[job] /\ Source = JobSource(ThisJob)
        /\ ThisJob.kind \in {"find", "file", "sum", "media"}
        /\ Len(BootJobs) \in Nat /\ (ThisJob.kind = "media" <=> job > Len(BootJobs))
        /\ ThisJob.kind # "find" => Source \in DOMAIN image.items
        /\ ThisJob.kind = "media" => Item(Source).main \in {"PARTITION", "dtb"}
        /\ ThisJob.kind \in {"file", "sum"} => Item(Source).main = "USB"
<1>1. /\ image \in Images /\ job \in 0 .. Len(AllJobs) /\ jobs = AllJobs
      /\ ThisJob.kind # "find" => Source \in DOMAIN image.items
  BY DEF PlanInv, PlanType, Progress, CursorsWithin
<1>2. PICK p : JobsAt(p)
  BY <1>1, AllJobsShape
<1>3. Len(BootJobs) \in Nat /\ Len(AllJobs) \in Nat
  BY <1>2 DEF JobsAt
<1>4. job \in 1 .. Len(AllJobs)
  BY <1>1, <1>3
<1>5. ThisJob = AllJobs[job] /\ Source = JobSource(ThisJob)
  BY <1>1 DEF ThisJob, Source, JobSource
<1>6. /\ ThisJob.kind \in {"find", "file", "sum", "media"}
      /\ ThisJob.kind = "media" <=> job > Len(BootJobs)
      /\ ThisJob.kind # "media" => ThisJob.main = "USB"
      /\ ThisJob.kind = "media" =>
            \E i \in DOMAIN image.items : IsPart(i) /\ ThisJob = MediaJob(i)
  BY <1>1, <1>4, <1>5, JobShape
<1>7. ThisJob.kind = "media" => Item(Source).main \in {"PARTITION", "dtb"}
  BY <1>1, <1>5, <1>6, PartJobSource
<1>8. ASSUME ThisJob.kind \in {"file", "sum"} PROVE Item(Source).main = "USB"
  <2>1. ThisJob.main = "USB" /\ Source \in DOMAIN image.items
    BY <1>1, <1>6, <1>8
  <2>2. Source # 0
    BY <1>1, <2>1, ItemsLength
  <2>3. Source \in Named("USB", ThisJob.sub)
    BY <1>1, <2>1, <2>2, LastItemFound DEF Source
  <2>. QED
    BY <2>3 DEF Named
<1>. QED
  BY <1>1, <1>3, <1>4, <1>5, <1>6, <1>7, <1>8

\* A list that goes on with the next job.
LEMMA BurnedGrows ==
  ASSUME NEW G, NEW m \in Nat
  PROVE Append([k \in 1 .. m |-> G[k]], G[m + 1]) = [k \in 1 .. m + 1 |-> G[k]]
<1>1. PICK s : s = [k \in 1 .. m |-> G[k]]
  OBVIOUS
<1>. DEFINE S == {G[k] : k \in 1 .. m + 1}
<1>2. s \in Seq(S) /\ Len(s) = m /\ (\A k \in 1 .. m : s[k] = G[k]) /\ G[m + 1] \in S
  BY <1>1
<1>3. [k \in 1 .. m + 1 |-> G[k]] \in Seq(S) /\ Len([k \in 1 .. m + 1 |-> G[k]]) = m + 1
  OBVIOUS
<1>. HIDE DEF S
<1>4. /\ Append(s, G[m + 1]) \in Seq(S) /\ Len(Append(s, G[m + 1])) = m + 1
      /\ \A k \in 1 .. m : Append(s, G[m + 1])[k] = s[k]
      /\ Append(s, G[m + 1])[m + 1] = G[m + 1]
  BY <1>2, AppendProperties
<1>5. \A k \in 1 .. m + 1 : k \in 1 .. m \/ k = m + 1
  OBVIOUS
<1>6. \A k \in 1 .. m + 1 : Append(s, G[m + 1])[k] = G[k]
  BY <1>2, <1>4, <1>5
<1>7. PICK t : t = [k \in 1 .. m + 1 |-> G[k]]
  OBVIOUS
<1>8. t \in Seq(S) /\ Len(t) = m + 1 /\ \A k \in 1 .. m + 1 : t[k] = G[k]
  BY <1>3, <1>7
<1>9. Append(s, G[m + 1]) = t
  BY <1>4, <1>6, <1>8, SeqEqual
<1>. QED
  BY <1>1, <1>7, <1>9

\* A step of a job: what holds of all jobs goes on to hold.
LEMMA WorkKeeps ==
  ASSUME PlanInv, Begun, job > 0, pc # "next", pc # "done",
         image' = image, board' = board, jobs' = jobs, job' = job, scan' = scan,
         CursorsWithin', written' \in Nat,
         pc' \in Phases(ThisJob.kind) \cup {"next", "failed"}, pc' # "media",
         ThisJob.kind = "find" => pc' = "failed" \/ Source # 0,
         \A i \in DOMAIN image.items :
            Item(i).main \in {"PARTITION", "dtb"} =>
               cursor'[i] = cursor[i] \/ (i = Source /\ ThisJob.kind = "media"),
         burned' = IF ThisJob.kind = "media" /\ pc' = "next"
                   THEN Append(burned, Source) ELSE burned
  PROVE PlanType' /\ Found' /\ Untouched' /\ BurnedSoFar'
<1>1. /\ AllJobs' = AllJobs /\ BootJobs' = BootJobs
      /\ \A i : Item(i)' = Item(i)
      /\ \A j : JobSource(j)' = JobSource(j)
      /\ ThisJob' = ThisJob /\ Source' = Source
  BY Frame, FrameJob
<1>2. /\ image \in Images /\ job \in 1 .. Len(AllJobs) /\ Len(AllJobs) \in Nat
      /\ ThisJob = AllJobs[job] /\ Source = JobSource(ThisJob)
      /\ ThisJob.kind \in {"find", "file", "sum", "media"}
      /\ Len(BootJobs) \in Nat /\ (ThisJob.kind = "media" <=> job > Len(BootJobs))
  BY InHand
<1>3. /\ pc' \notin {"open", "choose", "collect", "adnl", "done"}
      /\ pc' = "failed" \/ Begun'
  BY <1>2 DEF Phases, Begun
<1>4. PlanType'
  <2>1. jobs = AllJobs /\ scan \in 0 .. Len(image.items)
    BY DEF PlanInv, PlanType
  <2>2. job \in 0 .. Len(AllJobs)
    BY <1>2
  <2>3. Begun' => pc' = "next" \/ (job > 0 /\ pc' \in Phases(ThisJob.kind))
    BY <1>3 DEF Begun
  <2>4. \A k : Phases(k)' = Phases(k)
    BY DEF Phases
  <2>. QED
    BY <1>1, <1>3, <2>1, <2>2, <2>3, <2>4 DEF PlanType
<1>5. Found'
  <2>. SUFFICES ASSUME Begun', NEW n \in 1 .. Len(AllJobs), n <= Finished',
                       AllJobs[n].kind = "find"
                PROVE JobSource(AllJobs[n]) # 0
    BY <1>1 DEF Found
  <2>1. Finished = job - 1 /\ ((Finished' = job /\ pc' = "next") \/ Finished' = job - 1)
    BY <1>3 DEF Finished
  <2>2. CASE n <= job - 1
    BY <2>1, <2>2 DEF PlanInv, Found
  <2>3. CASE n = job /\ pc' = "next"
    BY <1>2, <2>3
  <2>. QED
    BY <1>2, <2>1, <2>2, <2>3
<1>6. Untouched'
  <2>. SUFFICES ASSUME Begun', NEW i \in DOMAIN image.items,
                       Item(i).main \in {"PARTITION", "dtb"}
                PROVE \/ cursor'[i] = 0
                      \/ \E n \in 1 .. Len(AllJobs) :
                            /\ AllJobs[n].kind = "media" /\ JobSource(AllJobs[n]) = i
                            /\ n < job \/ n = job
    <3>1. pc' \notin {"adnl", "failed"} => Begun'
      BY <1>3
    <3>. QED
      BY <1>1, <3>1 DEF Untouched
  <2>1. CASE cursor'[i] = cursor[i]
    BY <2>1 DEF PlanInv, Untouched, Begun
  <2>2. CASE i = Source /\ ThisJob.kind = "media"
    BY <1>2, <2>2
  <2>. QED
    BY <2>1, <2>2
<1>7. BurnedSoFar'
  <2>. SUFFICES ASSUME Begun'
                PROVE burned' = [k \in 1 .. MaxOf(0, Finished' - Len(BootJobs)) |->
                                    JobSource(AllJobs[Len(BootJobs) + k])]
    BY <1>1 DEF BurnedSoFar, MaxOf
  <2>1. PICK b \in Nat : b = Len(BootJobs)
    BY <1>2
  <2>2. PICK m \in Nat : m = MaxOf(0, (job - 1) - b)
    <3>1. job \in Int
      BY <1>2
    <3>2. MaxOf(0, (job - 1) - b) \in Nat
      BY <3>1 DEF MaxOf
    <3>. QED
      BY <3>2
  <2>3. PICK G : G = [k \in 1 .. m + 1 |-> JobSource(AllJobs[b + k])]
    OBVIOUS
  <2>4. burned = [k \in 1 .. m |-> G[k]]
    <3>1. burned = [k \in 1 .. m |-> JobSource(AllJobs[b + k])]
      BY <1>2, <2>1, <2>2 DEF PlanInv, BurnedSoFar, Finished
    <3>2. \A k \in 1 .. m : G[k] = JobSource(AllJobs[b + k])
      BY <2>3
    <3>. QED
      BY <3>1, <3>2
  <2>5. CASE ThisJob.kind = "media" /\ pc' = "next"
    <3>1. b + (m + 1) = job /\ MaxOf(0, job - b) = m + 1
      BY <1>2, <2>1, <2>2, <2>5 DEF MaxOf
    <3>2. Finished' = job
      BY <2>5 DEF Finished
    <3>3. G[m + 1] = Source
      BY <1>2, <2>3, <3>1
    <3>4. burned' = [k \in 1 .. m + 1 |-> G[k]]
      BY <2>4, <2>5, <3>3, BurnedGrows
    <3>5. \A k \in 1 .. m + 1 : G[k] = JobSource(AllJobs[b + k])
      BY <2>3
    <3>6. burned' = [k \in 1 .. m + 1 |-> JobSource(AllJobs[b + k])]
      BY <3>4, <3>5
    <3>. QED
      BY <2>1, <3>1, <3>2, <3>6
  <2>6. CASE ~(ThisJob.kind = "media" /\ pc' = "next")
    <3>1. MaxOf(0, Finished' - b) = m
      <4>1. pc' = "next" => job <= b
        BY <1>2, <2>1, <2>6
      <4>2. IF pc' = "next" THEN Finished' = job ELSE Finished' = job - 1
        BY <1>3 DEF Finished
      <4>. QED
        BY <1>2, <2>2, <4>1, <4>2 DEF MaxOf
    <3>2. \A k \in 1 .. m : G[k] = JobSource(AllJobs[b + k])
      BY <2>3
    <3>3. burned' = burned
      BY <2>6
    <3>4. burned' = [k \in 1 .. m |-> JobSource(AllJobs[b + k])]
      BY <2>4, <3>2, <3>3
    <3>. QED
      BY <2>1, <3>1, <3>4
  <2>. QED
    BY <2>5, <2>6
<1>. QED
  BY <1>4, <1>5, <1>6, <1>7

----------------------------------------------------------------------------
(* The steps of a job. *)

WorkAt ==
    {"find", "file", "fileBlock", "fileEnd", "sum", "sumRead", "sumEnd",
     "media", "mediaBlock", "status", "verify"}

LEMMA AtWork ==
  ASSUME PlanInv, pc \in WorkAt
  PROVE /\ Begun /\ pc # "next" /\ pc # "done" /\ job > 0
        /\ pc = "find" => ThisJob.kind = "find"
        /\ pc \in {"file", "fileBlock", "fileEnd"} => ThisJob.kind = "file"
        /\ pc \in {"sum", "sumRead", "sumEnd"} => ThisJob.kind = "sum"
        /\ pc \in {"media", "mediaBlock", "status", "verify"} => ThisJob.kind = "media"
        /\ written \in Nat /\ CursorsWithin
<1>1. Begun /\ pc # "next" /\ pc # "done"
  BY DEF WorkAt, Begun
<1>2. job > 0 /\ pc \in Phases(ThisJob.kind) /\ written \in Nat /\ CursorsWithin
  BY <1>1 DEF PlanInv, PlanType
<1>3. ThisJob.kind \in {"find", "file", "sum", "media"}
  BY <1>1, <1>2, InHand
<1>. QED
  BY <1>1, <1>2, <1>3 DEF Phases

\* What the job in hand is to send, and the item it is read from.
LEMMA SourceType ==
  ASSUME CursorsWithin, Source \in DOMAIN image.items
  PROVE /\ Item(Source).size \in Nat /\ Item(Source).offset \in Nat
        /\ image.files[Item(Source).file] \in Nat
        /\ cursor[Source] \in 0 .. Item(Source).size
        /\ FileSize \in 0 .. Item(Source).size
<1>1. /\ Item(Source).size \in Nat /\ Item(Source).offset \in Nat
      /\ image.files[Item(Source).file] \in Nat
      /\ cursor[Source] \in 0 .. Item(Source).size
  BY ItemTyped DEF CursorsWithin
<1>2. FileSize \in 0 .. Item(Source).size
  BY <1>1, PlanAssumption DEF FileSize
<1>. QED
  BY <1>1, <1>2

LEMMA BytesNone ==
  ASSUME NEW f, NEW o \in Nat, image.files[f] \in Nat
  PROVE FileBytes(f, o, 0) = <<>>
<1>1. Reached(f, o, 0) = 0
  BY DEF Reached, MinOf, MaxOf
<1>2. FileBytes(f, o, 0) = [k \in 1 .. 0 |-> <<f, o + k - 1>>]
  BY <1>1 DEF FileBytes, Reached
<1>. QED
  BY <1>2

\* A burn that fails keeps no promise about what it was doing.
LEMMA Fails ==
  ASSUME PlanInv, image' = image, scan' \in 0 .. Len(image.items), CursorsWithin',
         written' \in Nat, pc' \in {"adnl", "failed"}
  PROVE PlanInv'
BY DEF PlanInv, PlanType, Found, Untouched, BurnedSoFar, Progress, Begun

\* The invariant after a step of a job is what WorkKeeps says and what was sent.
LEMMA WorkStep ==
  ASSUME PlanInv, pc \in WorkAt, image' = image, board' = board, jobs' = jobs, job' = job,
         scan' = scan, CursorsWithin', written' \in Nat,
         pc' \in Phases(ThisJob.kind) \cup {"next", "failed"}, pc' # "media",
         ThisJob.kind = "find" => pc' = "failed" \/ Source # 0,
         \A i \in DOMAIN image.items :
            Item(i).main \in {"PARTITION", "dtb"} =>
               cursor'[i] = cursor[i] \/ (i = Source /\ ThisJob.kind = "media"),
         burned' = IF ThisJob.kind = "media" /\ pc' = "next"
                   THEN Append(burned, Source) ELSE burned,
         pc' # "failed" => Progress'
  PROVE PlanInv'
<1>1. PlanType' /\ Found' /\ Untouched' /\ BurnedSoFar'
  BY AtWork, WorkKeeps
<1>2. pc' = "failed" => Progress'
  BY DEF Progress, Begun
<1>. QED
  BY <1>1, <1>2 DEF PlanInv

LEMMA FindStep ==
  ASSUME PlanInv, Find, UNCHANGED <<image, board>>
  PROVE PlanInv'
<1>1. pc = "find" /\ pc \in WorkAt /\ CursorsWithin /\ ThisJob.kind = "find"
  BY AtWork DEF Find, WorkAt
<1>2. /\ pc' = (IF Source = 0 THEN "failed" ELSE "next")
      /\ UNCHANGED <<scan, platform, jobs, job, cursor, fpos, got, written, sent, burned>>
  BY DEF Find, Goto, NothingRead, itemVars, KeepSent
<1>3. CursorsWithin' /\ written' \in Nat
  BY <1>1, <1>2, AtWork DEF CursorsWithin, Item
<1>4. ThisJob' = ThisJob
  BY <1>2, FrameJob
<1>5. Progress'
  BY <1>1, <1>4 DEF Progress
<1>. QED
  BY <1>1, <1>2, <1>3, <1>5, WorkStep DEF Phases

LEMMA StartFileStep ==
  ASSUME PlanInv, StartFile, UNCHANGED <<image, board>>
  PROVE PlanInv'
<1>1. pc = "file" /\ pc \in WorkAt /\ CursorsWithin /\ ThisJob.kind = "file" /\ Begun
      /\ job > 0 /\ pc # "done"
  BY AtWork DEF StartFile, WorkAt
<1>2. /\ pc' = "fileBlock" /\ Seek(Source, 0, 0)
      /\ UNCHANGED <<scan, platform, jobs, job, written, sent, burned>>
  BY DEF StartFile, Goto, KeepSent
<1>3. /\ Source \in DOMAIN image.items /\ Item(Source).main = "USB"
      /\ sent = <<>> /\ written = 0
  BY <1>1, InHand DEF PlanInv, Progress
<1>4. /\ Item(Source).size \in Nat /\ Item(Source).offset \in Nat
      /\ image.files[Item(Source).file] \in Nat
      /\ FileSize \in 0 .. Item(Source).size
  BY <1>1, <1>3, SourceType
<1>5. cursor' = [cursor EXCEPT ![Source] = 0]
  <2>1. SeekTarget(Source, 0, 0) = 0
    BY <1>4 DEF SeekTarget, MinOf
  <2>2. cursor' = [cursor EXCEPT ![Source] = SeekTarget(Source, 0, 0)]
    BY <1>2 DEF Seek
  <2>. QED
    BY <2>1, <2>2
<1>6. CursorsWithin'
  <2>1. 0 \in 0 .. 2 /\ 0 \in Int
    OBVIOUS
  <2>. QED
    BY <1>1, <1>2, <1>3, <2>1, SeekKeepsCursors
<1>7. cursor'[Source] = 0
  BY <1>1, <1>3, <1>5 DEF CursorsWithin
<1>8. FileBytes(Item(Source).file, Item(Source).offset, 0) = <<>>
  BY <1>4, BytesNone
<1>9. /\ ThisJob' = ThisJob /\ Source' = Source /\ FileSize' = FileSize
      /\ \A i : Item(i)' = Item(i)
      /\ \A f, o, c : FileBytes(f, o, c)' = FileBytes(f, o, c)
  BY <1>2, Frame, FrameJob
<1>10. FileProgress'
  <2>1. written' = 0 * FileBlock /\ 0 \in Nat
    BY <1>2, <1>3, PlanAssumption
  <2>2. written' < FileSize + FileBlock /\ ~(written' > 0)
    BY <1>2, <1>3, <1>4, PlanAssumption
  <2>. QED
    BY <1>9, <2>1, <2>2 DEF FileProgress
<1>11. Progress'
  <2>1. (Sends(cursor[Source]))'
    BY <1>2, <1>3, <1>7, <1>8, <1>9 DEF Sends
  <2>2. cursor'[Source] = MinOf(written', Item(Source).size)
    BY <1>2, <1>3, <1>4, <1>7 DEF MinOf
  <2>. QED
    BY <1>2, <1>3, <1>9, <1>10, <2>1, <2>2 DEF Progress, MinOf
<1>12. \A i \in DOMAIN image.items :
          Item(i).main \in {"PARTITION", "dtb"} => cursor'[i] = cursor[i]
  BY <1>1, <1>3, <1>5 DEF CursorsWithin
<1>. QED
  BY <1>1, <1>2, <1>3, <1>6, <1>11, <1>12, WorkStep DEF Phases

\* The first block of a file job was sent from its beginning, and each one
\* after it follows.
LEMMA FileBlockStep ==
  ASSUME PlanInv, FileStep, UNCHANGED <<image, board>>
  PROVE PlanInv'
<1>1. pc = "fileBlock" /\ pc \in WorkAt /\ CursorsWithin /\ ThisJob.kind = "file" /\ Begun
      /\ job > 0 /\ pc # "done" /\ written \in Nat
  BY AtWork DEF FileStep, WorkAt
<1>2. /\ written < FileSize /\ Read(Source, FileBlock)
      /\ IF got' = <<>>
         THEN pc' = "fileEnd" /\ UNCHANGED <<written, sent>>
         ELSE pc' = "fileBlock" /\ written' = written + FileBlock /\ sent' = sent \o got'
      /\ UNCHANGED <<scan, platform, jobs, job, burned>>
  BY DEF FileStep, Goto, Counted
<1>3. Source \in DOMAIN image.items /\ Item(Source).main = "USB"
  BY <1>1, InHand
<1>4. /\ Item(Source).size \in Nat /\ Item(Source).offset \in Nat
      /\ FileSize \in 0 .. Item(Source).size
  BY <1>1, <1>3, SourceType
<1>5. FileBlock \in Nat \ {0} /\ FileBlock \in Nat \cup {-1}
  BY PlanAssumption
<1>6. CursorsWithin'
  BY <1>1, <1>2, <1>3, <1>5, ReadKeepsCursors
<1>7. /\ FileProgress /\ Sends(cursor[Source])
      /\ cursor[Source] = MinOf(written, Item(Source).size)
  BY <1>1 DEF PlanInv, Progress
<1>8. cursor[Source] = written
  BY <1>1, <1>2, <1>4, <1>7 DEF MinOf
<1>9. PICK before : before = FileBytes(Item(Source).file, Item(Source).offset, written)
  OBVIOUS
<1>10. PICK m \in Nat : m = ReadSize(Source, FileBlock)
                        /\ m = MinOf(FileBlock, Item(Source).size - written)
  <2>1. ReadSize(Source, FileBlock) = MinOf(FileBlock, Item(Source).size - written)
    BY <1>1, <1>2, <1>4, <1>5, <1>8 DEF ReadSize, MinOf
  <2>2. MinOf(FileBlock, Item(Source).size - written) \in Nat
    BY <1>1, <1>2, <1>4, <1>5 DEF MinOf
  <2>. QED
    BY <2>1, <2>2
<1>11. PICK after :
         after = FileBytes(Item(Source).file, Item(Source).offset, written + m)
  OBVIOUS
<1>12. /\ cursor' = [cursor EXCEPT ![Source] = written + m]
       /\ before \o got' = after /\ Len(after) \in Nat
       /\ got' = <<>> => before = after
       /\ got' # <<>> => Len(before) = written /\ Len(after) > written
  <2>1. /\ cursor' = [cursor EXCEPT ![Source] = cursor[Source] + ReadSize(Source, FileBlock)]
        /\ FileBytes(Item(Source).file, Item(Source).offset, cursor[Source]) \o got'
             = FileBytes(Item(Source).file, Item(Source).offset,
                         cursor[Source] + ReadSize(Source, FileBlock))
        /\ Len(FileBytes(Item(Source).file, Item(Source).offset,
                         cursor[Source] + ReadSize(Source, FileBlock))) \in Nat
        /\ got' = <<>> =>
             FileBytes(Item(Source).file, Item(Source).offset, cursor[Source])
             = FileBytes(Item(Source).file, Item(Source).offset,
                         cursor[Source] + ReadSize(Source, FileBlock))
        /\ got' # <<>> =>
             /\ Len(FileBytes(Item(Source).file, Item(Source).offset, cursor[Source]))
                  = cursor[Source]
             /\ Len(FileBytes(Item(Source).file, Item(Source).offset,
                         cursor[Source] + ReadSize(Source, FileBlock))) > cursor[Source]
    BY <1>1, <1>2, <1>3, <1>5, ReadAdds
  <2>. QED
    BY <1>8, <1>9, <1>10, <1>11, <2>1
<1>13. cursor'[Source] = written + m
  BY <1>1, <1>3, <1>12 DEF CursorsWithin
<1>14. sent = before
  BY <1>7, <1>8, <1>9 DEF Sends
<1>15. sent' = after
  BY <1>2, <1>12, <1>14
<1>16. /\ ThisJob' = ThisJob /\ Source' = Source /\ FileSize' = FileSize
       /\ \A i : Item(i)' = Item(i)
       /\ \A f, o, c : FileBytes(f, o, c)' = FileBytes(f, o, c)
  BY <1>2, Frame, FrameJob
<1>17. (Sends(cursor[Source]))'
  BY <1>11, <1>13, <1>15, <1>16 DEF Sends
<1>18. \A i \in DOMAIN image.items :
          Item(i).main \in {"PARTITION", "dtb"} => cursor'[i] = cursor[i]
  BY <1>1, <1>3, <1>12 DEF CursorsWithin
<1>19. CASE got' = <<>>
  <2>1. Progress'
    BY <1>1, <1>2, <1>3, <1>16, <1>17, <1>19 DEF Progress
  <2>. QED
    BY <1>1, <1>2, <1>6, <1>18, <1>19, <2>1, WorkStep DEF Phases
<1>20. CASE got' # <<>>
  <2>1. written' = written + FileBlock /\ pc' = "fileBlock" /\ written' \in Nat
    BY <1>1, <1>2, <1>5, <1>20
  <2>2. PICK k \in Nat : written = k * FileBlock
    BY <1>7 DEF FileProgress
  <2>3. k + 1 \in Nat /\ written' = (k + 1) * FileBlock
    BY <1>5, <2>1, <2>2
  <2>4. written' < FileSize + FileBlock
    BY <1>1, <1>2, <1>4, <1>5, <2>1
  <2>5. Len(sent') > written' - FileBlock
    BY <1>1, <1>5, <1>12, <1>15, <1>20, <2>1
  <2>6. FileProgress'
    BY <1>16, <2>3, <2>4, <2>5 DEF FileProgress
  <2>7. cursor'[Source] = MinOf(written', Item(Source).size)
    BY <1>1, <1>2, <1>4, <1>5, <1>10, <1>13, <2>1 DEF MinOf
  <2>8. Progress'
    BY <1>3, <1>16, <1>17, <2>1, <2>6, <2>7 DEF Progress, MinOf
  <2>. QED
    BY <1>1, <1>2, <1>6, <1>18, <2>1, <2>8, WorkStep DEF Phases
<1>. QED
  BY <1>19, <1>20

LEMMA EndFileStep ==
  ASSUME PlanInv, EndFile, UNCHANGED <<image, board>>
  PROVE PlanInv'
<1>1. pc \in {"fileBlock", "fileEnd"} /\ pc \in WorkAt /\ CursorsWithin
      /\ ThisJob.kind = "file" /\ Begun /\ job > 0 /\ pc # "done" /\ written \in Nat
  BY AtWork DEF EndFile, WorkAt
<1>2. /\ pc = "fileBlock" => written >= FileSize
      /\ pc' = (IF written >= FileSize THEN "next" ELSE "failed")
      /\ UNCHANGED <<scan, platform, jobs, job, cursor, fpos, got, written, sent, burned>>
  BY DEF EndFile, Goto, NothingRead, itemVars, KeepSent
<1>3. Source \in DOMAIN image.items
  BY <1>1, InHand
<1>4. FileSize \in Nat
  BY <1>1, <1>3, SourceType
<1>5. pc = "fileEnd" => written < FileSize
  BY <1>1 DEF PlanInv, Progress
<1>6. CursorsWithin' /\ written' \in Nat
  BY <1>1, <1>2 DEF CursorsWithin, Item
<1>7. /\ ThisJob' = ThisJob /\ Source' = Source /\ FileSize' = FileSize
      /\ \A i : Item(i)' = Item(i)
      /\ \A f, o, c : FileBytes(f, o, c)' = FileBytes(f, o, c)
  BY <1>2, Frame, FrameJob
<1>8. ASSUME pc' # "failed" PROVE Progress'
  <2>1. pc = "fileBlock" /\ pc' = "next" /\ written >= FileSize
    BY <1>1, <1>2, <1>4, <1>5, <1>8
  <2>2. /\ FileProgress /\ Sends(cursor[Source])
        /\ cursor[Source] = MinOf(written, Item(Source).size)
    BY <1>1, <2>1 DEF PlanInv, Progress
  <2>3. FileProgress'
    BY <1>2, <1>7, <2>2 DEF FileProgress
  <2>4. (Sends(MinOf(written, Item(Source).size)))'
    BY <1>2, <1>7, <2>2 DEF Sends, MinOf
  <2>. QED
    BY <1>1, <1>2, <1>3, <1>7, <2>1, <2>3, <2>4 DEF Progress
<1>. QED
  BY <1>1, <1>2, <1>6, <1>8, WorkStep DEF Phases

LEMMA SumRewindStep ==
  ASSUME PlanInv, SumRewind, UNCHANGED <<image, board>>
  PROVE PlanInv'
<1>1. pc \in {"sum", "sumEnd"} /\ pc \in WorkAt /\ CursorsWithin
      /\ ThisJob.kind = "sum" /\ Begun /\ job > 0 /\ pc # "done" /\ written \in Nat
  BY AtWork DEF SumRewind, WorkAt
<1>2. /\ pc' = (IF pc = "sum" THEN "sumRead" ELSE "next") /\ Seek(Source, 0, 0)
      /\ UNCHANGED <<scan, platform, jobs, job, written, sent, burned>>
  BY DEF SumRewind, Goto, KeepSent
<1>3. Source \in DOMAIN image.items /\ Item(Source).main = "USB"
      /\ (pc = "sum" => sent = <<>>) /\ (pc = "sumEnd" => Sends(Item(Source).size))
  BY <1>1, InHand DEF PlanInv, Progress
<1>4. Item(Source).size \in Nat
  BY <1>1, <1>3, SourceType
<1>5. cursor' = [cursor EXCEPT ![Source] = 0]
  <2>1. SeekTarget(Source, 0, 0) = 0
    BY <1>4 DEF SeekTarget, MinOf
  <2>2. cursor' = [cursor EXCEPT ![Source] = SeekTarget(Source, 0, 0)]
    BY <1>2 DEF Seek
  <2>. QED
    BY <2>1, <2>2
<1>6. CursorsWithin'
  <2>1. 0 \in 0 .. 2 /\ 0 \in Int
    OBVIOUS
  <2>. QED
    BY <1>1, <1>2, <1>3, <2>1, SeekKeepsCursors
<1>7. cursor'[Source] = 0
  BY <1>1, <1>3, <1>5 DEF CursorsWithin
<1>8. /\ ThisJob' = ThisJob /\ Source' = Source
      /\ \A i : Item(i)' = Item(i)
      /\ \A f, o, c : FileBytes(f, o, c)' = FileBytes(f, o, c)
  BY <1>2, Frame, FrameJob
<1>9. CASE pc = "sum"
  <2>1. Progress'
    BY <1>1, <1>2, <1>3, <1>7, <1>8, <1>9 DEF Progress
  <2>2. pc' = "sumRead"
    BY <1>2, <1>9
  <2>3. \A i \in DOMAIN image.items :
           Item(i).main \in {"PARTITION", "dtb"} => cursor'[i] = cursor[i]
    BY <1>1, <1>3, <1>5 DEF CursorsWithin
  <2>. QED
    BY <1>1, <1>2, <1>6, <2>1, <2>2, <2>3, WorkStep DEF Phases
<1>10. CASE pc = "sumEnd"
  <2>1. (Sends(Item(Source).size))'
    BY <1>2, <1>3, <1>8, <1>10 DEF Sends
  <2>2. pc' = "next"
    BY <1>2, <1>10
  <2>3. Progress'
    BY <1>1, <1>3, <1>8, <2>1, <2>2 DEF Progress
  <2>4. \A i \in DOMAIN image.items :
           Item(i).main \in {"PARTITION", "dtb"} => cursor'[i] = cursor[i]
    BY <1>1, <1>3, <1>5 DEF CursorsWithin
  <2>. QED
    BY <1>1, <1>2, <1>6, <2>2, <2>3, <2>4, WorkStep DEF Phases
<1>. QED
  BY <1>1, <1>9, <1>10

LEMMA SumReadStep ==
  ASSUME PlanInv, SumRead, UNCHANGED <<image, board>>
  PROVE PlanInv'
<1>1. pc = "sumRead" /\ pc \in WorkAt /\ CursorsWithin
      /\ ThisJob.kind = "sum" /\ Begun /\ job > 0 /\ pc # "done" /\ written \in Nat
  BY AtWork DEF SumRead, WorkAt
<1>2. /\ pc' \in {"sumEnd", "failed"} /\ Read(Source, -1) /\ sent' = got'
      /\ UNCHANGED <<scan, platform, jobs, job, written, burned>>
  BY DEF SumRead, Goto
<1>3. Source \in DOMAIN image.items /\ Item(Source).main = "USB" /\ cursor[Source] = 0
  BY <1>1, InHand DEF PlanInv, Progress
<1>4. Item(Source).size \in Nat /\ Item(Source).offset \in Nat
  BY <1>1, <1>3, SourceType
<1>5. CursorsWithin'
  <2>1. -1 \in Nat \cup {-1}
    OBVIOUS
  <2>. QED
    BY <1>1, <1>2, <1>3, <2>1, ReadKeepsCursors
<1>6. sent' = FileBytes(Item(Source).file, Item(Source).offset, Item(Source).size)
  <2>1. ReadSize(Source, -1) = Item(Source).size
    BY <1>3, <1>4 DEF ReadSize
  <2>2. ReadPosition(Source) = Item(Source).offset
    BY <1>3, <1>4 DEF ReadPosition
  <2>. QED
    BY <1>2, <2>1, <2>2 DEF Read
<1>7. /\ ThisJob' = ThisJob /\ Source' = Source
      /\ \A i : Item(i)' = Item(i)
      /\ \A f, o, c : FileBytes(f, o, c)' = FileBytes(f, o, c)
  BY <1>2, Frame, FrameJob
<1>8. (Sends(Item(Source).size))'
  BY <1>6, <1>7 DEF Sends
<1>9. ASSUME pc' # "failed" PROVE Progress'
  <2>1. pc' = "sumEnd"
    BY <1>2, <1>9
  <2>. QED
    BY <1>1, <1>3, <1>7, <1>8, <2>1 DEF Progress
<1>10. \A i \in DOMAIN image.items :
          Item(i).main \in {"PARTITION", "dtb"} => cursor'[i] = cursor[i]
  BY <1>1, <1>2, <1>3 DEF Read, CursorsWithin
<1>. QED
  BY <1>1, <1>2, <1>5, <1>9, <1>10, WorkStep DEF Phases

\* A download to storage begins at the beginning of its item without a rewind:
\* nothing has read the item before.
LEMMA StartMediaStep ==
  ASSUME PlanInv, StartMedia, UNCHANGED <<image, board>>
  PROVE PlanInv'
<1>1. pc = "media" /\ pc \in WorkAt /\ CursorsWithin
      /\ ThisJob.kind = "media" /\ Begun /\ job > 0 /\ pc # "done" /\ written \in Nat
  BY AtWork DEF StartMedia, WorkAt
<1>2. /\ pc' = (IF Item(Source).type \in KnownTypes THEN "mediaBlock" ELSE "failed")
      /\ UNCHANGED <<scan, platform, jobs, job, cursor, fpos, got, written, sent, burned>>
  BY DEF StartMedia, Goto, NothingRead, itemVars, KeepSent
<1>3. Source \in DOMAIN image.items /\ cursor[Source] = 0 /\ sent = <<>>
  BY <1>1, InHand DEF PlanInv, Progress
<1>4. FileBytes(Item(Source).file, Item(Source).offset, 0) = <<>>
  BY <1>1, <1>3, SourceType, BytesNone
<1>5. CursorsWithin' /\ written' \in Nat
  BY <1>1, <1>2 DEF CursorsWithin, Item
<1>6. /\ ThisJob' = ThisJob /\ Source' = Source
      /\ \A i : Item(i)' = Item(i)
      /\ \A f, o, c : FileBytes(f, o, c)' = FileBytes(f, o, c)
  BY <1>2, Frame, FrameJob
<1>7. (Sends(cursor[Source]))'
  BY <1>2, <1>3, <1>4, <1>6 DEF Sends
<1>8. ASSUME pc' # "failed" PROVE Progress'
  <2>1. pc' = "mediaBlock"
    BY <1>2, <1>8
  <2>. QED
    BY <1>1, <1>3, <1>6, <1>7, <2>1 DEF Progress
<1>. QED
  BY <1>1, <1>2, <1>5, <1>8, WorkStep DEF Phases

LEMMA MediaBlockStep ==
  ASSUME PlanInv, MediaStep, UNCHANGED <<image, board>>
  PROVE PlanInv'
<1>1. pc = "mediaBlock" /\ pc \in WorkAt /\ CursorsWithin
      /\ ThisJob.kind = "media" /\ Begun /\ job > 0 /\ pc # "done" /\ written \in Nat
  BY AtWork DEF MediaStep, WorkAt
<1>2. /\ Read(Source, MediaBlock)
      /\ \/ pc' = "failed"
         \/ /\ sent' = sent \o got'
            /\ pc' = (IF got' = <<>> THEN "status" ELSE "mediaBlock")
      /\ UNCHANGED <<scan, platform, jobs, job, written, burned>>
  BY DEF MediaStep, Goto
<1>3. Source \in DOMAIN image.items /\ Sends(cursor[Source])
  BY <1>1, InHand DEF PlanInv, Progress
<1>4. MediaBlock \in Nat \ {0} /\ MediaBlock \in Nat \cup {-1} /\ MediaBlock > 0
  BY PlanAssumption
<1>5. CursorsWithin'
  BY <1>1, <1>2, <1>3, <1>4, ReadKeepsCursors
<1>6. PICK n : n = cursor[Source] + ReadSize(Source, MediaBlock)
  OBVIOUS
<1>7. PICK after : after = FileBytes(Item(Source).file, Item(Source).offset, n)
  OBVIOUS
<1>8. /\ cursor' = [cursor EXCEPT ![Source] = n]
      /\ sent \o got' = after
      /\ got' = <<>> => sent = after /\ sent = Content(Source)
  BY <1>1, <1>2, <1>3, <1>4, <1>6, <1>7, ReadAdds DEF Sends
<1>9. cursor'[Source] = n
  BY <1>1, <1>3, <1>8 DEF CursorsWithin
<1>10. /\ ThisJob' = ThisJob /\ Source' = Source
       /\ \A i : Item(i)' = Item(i)
       /\ \A f, o, c : FileBytes(f, o, c)' = FileBytes(f, o, c)
  BY <1>2, Frame, FrameJob
<1>13. ASSUME pc' # "failed" PROVE Progress'
  <2>1. sent' = sent \o got' /\ pc' = (IF got' = <<>> THEN "status" ELSE "mediaBlock")
    BY <1>2, <1>13
  <2>2. (Sends(cursor[Source]))'
    BY <1>7, <1>8, <1>9, <1>10, <2>1 DEF Sends
  <2>3. got' = <<>> => (Sends(Item(Source).size))'
    <3>1. got' = <<>> => sent' = Content(Source)
      BY <1>8, <2>1
    <3>. QED
      BY <1>10, <3>1 DEF Sends, Content
  <2>. QED
    BY <1>1, <1>2, <1>3, <1>10, <2>1, <2>2, <2>3 DEF Progress
<1>14. \A i \in DOMAIN image.items :
          cursor'[i] = cursor[i] \/ (i = Source /\ ThisJob.kind = "media")
  BY <1>1, <1>3, <1>8 DEF CursorsWithin
<1>. QED
  BY <1>1, <1>2, <1>5, <1>13, <1>14, WorkStep DEF Phases

LEMMA StatusStep ==
  ASSUME PlanInv, Status, UNCHANGED <<image, board>>
  PROVE PlanInv'
<1>1. pc = "status" /\ pc \in WorkAt /\ CursorsWithin
      /\ ThisJob.kind = "media" /\ Begun /\ job > 0 /\ pc # "done" /\ written \in Nat
  BY AtWork DEF Status, WorkAt
<1>2. /\ IF ~DownloadStatus THEN pc' = "failed" /\ burned' = burned
         ELSE IF Item(Source).verify THEN pc' = "verify" /\ burned' = burned
         ELSE pc' = "next" /\ burned' = Append(burned, Source)
      /\ UNCHANGED <<scan, platform, jobs, job, cursor, fpos, got, written, sent>>
  BY DEF Status, Goto, NothingRead, itemVars
<1>3. Source \in DOMAIN image.items /\ Sends(Item(Source).size)
  BY <1>1, InHand DEF PlanInv, Progress
<1>4. CursorsWithin' /\ written' \in Nat
  BY <1>1, <1>2 DEF CursorsWithin, Item
<1>5. /\ ThisJob' = ThisJob /\ Source' = Source
      /\ \A i : Item(i)' = Item(i)
      /\ \A f, o, c : FileBytes(f, o, c)' = FileBytes(f, o, c)
  BY <1>2, Frame, FrameJob
<1>6. (Sends(Item(Source).size))'
  BY <1>2, <1>3, <1>5 DEF Sends
<1>7. ASSUME pc' # "failed" PROVE Progress'
  <2>1. Len(sent') = Item(Source).size /\ pc' \in {"verify", "next"}
    BY <1>2, <1>7 DEF DownloadStatus
  <2>. QED
    BY <1>1, <1>3, <1>5, <1>6, <2>1 DEF Progress
<1>. QED
  BY <1>1, <1>2, <1>4, <1>7, WorkStep DEF Phases

LEMMA VerifyStep ==
  ASSUME PlanInv, Verify, UNCHANGED <<image, board>>
  PROVE PlanInv'
<1>1. pc = "verify" /\ pc \in WorkAt /\ CursorsWithin
      /\ ThisJob.kind = "media" /\ Begun /\ job > 0 /\ pc # "done" /\ written \in Nat
  BY AtWork DEF Verify, WorkAt
<1>2. PICK v : v = VerifyItem(ThisJob.sub)
  OBVIOUS
<1>3. /\ IF v = 0 THEN pc' = "failed" /\ NothingRead /\ burned' = burned
         ELSE /\ Read(v, -1)
              /\ \/ pc' = "next" /\ burned' = Append(burned, Source)
                 \/ pc' = "failed" /\ burned' = burned
      /\ UNCHANGED <<scan, platform, jobs, job, written, sent>>
  BY <1>2 DEF Verify, Goto
<1>4. /\ Source \in DOMAIN image.items /\ Sends(Item(Source).size)
      /\ Len(sent) = Item(Source).size
  BY <1>1, InHand DEF PlanInv, Progress
<1>5. v # 0 => v \in DOMAIN image.items /\ Item(v).main = "VERIFY"
  BY <1>1, <1>2, LastItemFound DEF VerifyItem, Named, CursorsWithin
<1>6. CursorsWithin' /\ written' \in Nat
  <2>1. -1 \in Nat \cup {-1}
    OBVIOUS
  <2>2. CASE v = 0
    BY <1>1, <1>3, <2>2 DEF CursorsWithin, Item, NothingRead, itemVars
  <2>3. CASE v # 0
    BY <1>1, <1>3, <1>5, <2>1, <2>3, ReadKeepsCursors
  <2>. QED
    BY <2>2, <2>3
<1>7. /\ ThisJob' = ThisJob /\ Source' = Source
      /\ \A i : Item(i)' = Item(i)
      /\ \A f, o, c : FileBytes(f, o, c)' = FileBytes(f, o, c)
  BY <1>3, Frame, FrameJob
<1>8. (Sends(Item(Source).size))'
  BY <1>3, <1>4, <1>7 DEF Sends
<1>9. ASSUME pc' # "failed" PROVE Progress'
  <2>1. pc' = "next"
    BY <1>3, <1>9
  <2>. QED
    BY <1>1, <1>3, <1>4, <1>7, <1>8, <2>1 DEF Progress
<1>10. \A i \in DOMAIN image.items :
          Item(i).main \in {"PARTITION", "dtb"} => cursor'[i] = cursor[i]
  BY <1>1, <1>3, <1>5 DEF CursorsWithin, NothingRead, itemVars, Read
<1>. QED
  BY <1>1, <1>3, <1>6, <1>9, <1>10, WorkStep DEF Phases

----------------------------------------------------------------------------
(* Before and between the jobs. *)

LEMMA PlanInitial == PlanInit => PlanInv
<1>. SUFFICES ASSUME PlanInit PROVE PlanInv
  OBVIOUS
<1>1. CursorsWithin /\ pc = "open" /\ ~Begun /\ scan = 0 /\ written = 0 /\ job = 0
      /\ sent = <<>> /\ burned = <<>>
  BY InitCursors DEF PlanInit, Begun
<1>2. 0 \in 0 .. Len(image.items)
  BY <1>1, ItemsLength DEF CursorsWithin
<1>3. \A i \in DOMAIN image.items : cursor[i] = 0
  BY DEF PlanInit, ImageInit
<1>. QED
  BY <1>1, <1>2, <1>3
     DEF PlanInv, PlanType, Found, Untouched, BurnedSoFar, Progress

\* A step before the burn has its jobs.
LEMMA EarlyStep ==
  ASSUME PlanInv, pc \in {"open", "choose", "collect"},
         pc' \in {"choose", "collect", "failed", "adnl"}, image' = image, board' = board,
         UNCHANGED <<job, written, sent, burned>>, scan' \in 0 .. Len(image.items),
         CursorsWithin',
         \A i \in DOMAIN image.items :
            Item(i).main \in {"PARTITION", "dtb"} => cursor'[i] = cursor[i]
  PROVE PlanInv'
<1>1. ~Begun /\ ~Begun' /\ written' \in Nat /\ \A i : Item(i)' = Item(i)
  BY DEF PlanInv, PlanType, Begun, Item
<1>2. Untouched'
  BY <1>1 DEF PlanInv, Untouched
<1>3. PlanType'
  BY <1>1 DEF PlanInv, PlanType
<1>. QED
  BY <1>1, <1>2, <1>3 DEF PlanInv, Found, BurnedSoFar, Progress

LEMMA OpenStep ==
  ASSUME PlanInv, Open \/ Choose, UNCHANGED <<image, board>>
  PROVE PlanInv'
<1>1. /\ pc \in {"open", "choose"} /\ pc' \in {"choose", "collect", "failed", "adnl"}
      /\ UNCHANGED <<scan, platform, jobs, job, cursor, fpos, got, written, sent, burned>>
  BY DEF Open, Choose, Goto, NothingRead, itemVars, KeepSent
<1>2. CursorsWithin' /\ scan' \in 0 .. Len(image.items)
  BY <1>1 DEF PlanInv, PlanType, CursorsWithin, Item
<1>. QED
  BY <1>1, <1>2, EarlyStep

LEMMA CollectStep ==
  ASSUME PlanInv, Collect, UNCHANGED <<image, board>>
  PROVE PlanInv'
<1>1. /\ pc = "collect" /\ scan < Len(image.items) /\ scan' = scan + 1
      /\ UNCHANGED <<jobs, job, written, sent, burned>>
      /\ pc' \in {"collect", "failed"}
      /\ IF Item(scan + 1).main = "conf" /\ Item(scan + 1).sub = "platform"
         THEN Read(scan + 1, -1) ELSE UNCHANGED itemVars
  BY DEF Collect, NothingRead, KeepSent
<1>2. /\ CursorsWithin /\ scan \in 0 .. Len(image.items)
      /\ Len(image.items) \in Nat /\ DOMAIN image.items = 1 .. Len(image.items)
  BY ItemsLength DEF PlanInv, PlanType, CursorsWithin
<1>3. PICK i \in DOMAIN image.items : i = scan + 1
  BY <1>1, <1>2
<1>4. scan' \in 0 .. Len(image.items)
  BY <1>1, <1>2
<1>5. CASE Item(i).main = "conf" /\ Item(i).sub = "platform"
  <2>1. Read(i, -1) /\ -1 \in Nat \cup {-1}
    BY <1>1, <1>3, <1>5
  <2>2. CursorsWithin'
    BY <1>2, <2>1, ReadKeepsCursors
  <2>3. \A j \in DOMAIN image.items :
           Item(j).main \in {"PARTITION", "dtb"} => cursor'[j] = cursor[j]
    BY <1>2, <1>5, <2>1 DEF Read, CursorsWithin
  <2>. QED
    BY <1>1, <1>4, <2>2, <2>3, EarlyStep
<1>6. CASE ~(Item(i).main = "conf" /\ Item(i).sub = "platform")
  <2>1. UNCHANGED itemVars
    BY <1>1, <1>3, <1>6
  <2>2. cursor' = cursor /\ CursorsWithin'
    BY <1>2, <2>1 DEF CursorsWithin, Item, itemVars
  <2>. QED
    BY <1>1, <1>4, <2>2, EarlyStep
<1>. QED
  BY <1>5, <1>6

LEMMA PlanStep ==
  ASSUME PlanInv, Plan, UNCHANGED <<image, board>>
  PROVE PlanInv'
<1>1. /\ pc = "collect" /\ pc' = (IF platform THEN "next" ELSE "failed")
      /\ jobs' = AllJobs
      /\ UNCHANGED <<scan, platform, job, cursor, fpos, got, written, sent, burned>>
  BY DEF Plan, NothingRead, itemVars, KeepSent, AllJobs
<1>2. /\ CursorsWithin /\ scan \in 0 .. Len(image.items) /\ written \in Nat
      /\ job = 0 /\ sent = <<>> /\ burned = <<>>
      /\ \A i \in DOMAIN image.items :
            Item(i).main \in {"PARTITION", "dtb"} => cursor[i] = 0
  BY <1>1 DEF PlanInv, PlanType, Untouched, Begun
<1>3. CursorsWithin' /\ scan' \in 0 .. Len(image.items) /\ written' \in Nat
  BY <1>1, <1>2 DEF CursorsWithin, Item
<1>4. CASE pc' = "failed"
  BY <1>3, <1>4, Fails
<1>5. CASE pc' = "next"
  <2>1. /\ AllJobs' = AllJobs /\ BootJobs' = BootJobs
        /\ \A i : Item(i)' = Item(i)
        /\ \A j : JobSource(j)' = JobSource(j)
    BY Frame
  <2>2. Len(AllJobs) \in Nat /\ Len(BootJobs) \in Nat
    BY <1>2, AllJobsShape DEF JobsAt, CursorsWithin
  <2>3. Begun' /\ Finished' = 0
    BY <1>1, <1>2, <1>5 DEF Begun, Finished
  <2>4. PlanType'
    BY <1>1, <1>2, <1>3, <1>5, <2>1, <2>2, <2>3 DEF PlanType
  <2>5. Found'
    BY <2>1, <2>2, <2>3 DEF Found
  <2>6. Untouched'
    BY <1>1, <1>2, <2>1 DEF Untouched
  <2>7. BurnedSoFar'
    <3>1. MaxOf(0, 0 - Len(BootJobs)) = 0
      BY <2>2 DEF MaxOf
    <3>2. <<>> = [k \in 1 .. 0 |-> JobSource(AllJobs[Len(BootJobs) + k])]
      OBVIOUS
    <3>3. (MaxOf(0, Finished - Len(BootJobs)))' = 0
      BY <2>1, <2>3, <3>1 DEF MaxOf
    <3>. QED
      BY <1>1, <1>2, <2>1, <3>2, <3>3 DEF BurnedSoFar
  <2>8. Progress'
    BY <1>1, <1>2 DEF Progress
  <2>. QED
    BY <2>4, <2>5, <2>6, <2>7, <2>8 DEF PlanInv
<1>. QED
  BY <1>1, <1>4, <1>5

\* The item of a job is there when the job comes up, and nothing has read an
\* item that is for storage.
LEMMA NextSource ==
  ASSUME PlanInv, pc = "next", job < Len(AllJobs), AllJobs[job + 1].kind # "find"
  PROVE LET s == JobSource(AllJobs[job + 1])
        IN  /\ s \in DOMAIN image.items
            /\ AllJobs[job + 1].kind = "media" => cursor[s] = 0
<1>1. Begun /\ image \in Images /\ job \in 0 .. Len(AllJobs) /\ Len(AllJobs) \in Nat
      /\ Finished = job
  BY AllJobsShape DEF PlanInv, PlanType, Begun, JobsAt, CursorsWithin, Finished
<1>2. PICK n \in 1 .. Len(AllJobs) : n = job + 1
  BY <1>1
<1>3. AllJobs[n].kind \in {"find", "file", "sum", "media"}
  BY <1>1, JobShape
<1>4. PICK s : s = JobSource(AllJobs[n])
  OBVIOUS
<1>5. CASE AllJobs[n].kind \in {"file", "sum"}
  <2>1. PICK m \in 1 .. n - 1 : AllJobs[m].kind = "find"
                                /\ JobSource(AllJobs[m]) = s
    BY <1>1, <1>4, <1>5, JobShape
  <2>2. m \in 1 .. Len(AllJobs) /\ m <= job
    BY <1>1, <1>2, <2>1
  <2>3. s # 0
    BY <1>1, <2>1, <2>2 DEF PlanInv, Found
  <2>4. s \in DOMAIN image.items
    BY <1>1, <1>4, <2>3, LastItemFound DEF JobSource, Named
  <2>. QED
    BY <1>2, <1>4, <1>5, <2>4
<1>6. CASE AllJobs[n].kind = "media"
  <2>1. s \in DOMAIN image.items /\ Item(s).main \in {"PARTITION", "dtb"}
    BY <1>1, <1>4, <1>6, JobShape, PartJobSource
  <2>2. \/ cursor[s] = 0
        \/ \E m \in 1 .. Len(AllJobs) : /\ AllJobs[m].kind = "media"
                                        /\ JobSource(AllJobs[m]) = s /\ m <= job
    BY <1>1, <2>1 DEF PlanInv, Untouched
  <2>3. \A m \in 1 .. Len(AllJobs) :
           m <= job /\ AllJobs[m].kind = "media" => JobSource(AllJobs[m]) # s
    BY <1>1, <1>2, <1>4, <1>6, MediaSourcesDiffer
  <2>. QED
    BY <1>2, <1>4, <2>1, <2>2, <2>3
<1>. QED
  BY <1>2, <1>3, <1>5, <1>6

LEMMA NextJobStep ==
  ASSUME PlanInv, NextJob, UNCHANGED <<image, board>>
  PROVE PlanInv'
<1>1. /\ pc = "next"
      /\ IF job = Len(jobs) THEN pc' = "done" /\ job' = job
         ELSE job' = job + 1 /\ pc' = jobs[job + 1].kind
      /\ written' = 0 /\ sent' = <<>>
      /\ UNCHANGED <<scan, platform, jobs, burned, cursor, fpos, got>>
  BY DEF NextJob, NothingRead, itemVars
<1>2. /\ Begun /\ Finished = job /\ CursorsWithin /\ jobs = AllJobs
      /\ image \in Images /\ job \in 0 .. Len(AllJobs) /\ Len(AllJobs) \in Nat
      /\ scan \in 0 .. Len(image.items)
  BY <1>1, AllJobsShape DEF PlanInv, PlanType, Begun, JobsAt, CursorsWithin, Finished
<1>3. CursorsWithin' /\ scan' \in 0 .. Len(image.items) /\ written' \in Nat
  BY <1>1, <1>2 DEF CursorsWithin, Item
<1>4. /\ AllJobs' = AllJobs /\ BootJobs' = BootJobs
      /\ \A i : Item(i)' = Item(i)
      /\ \A j : JobSource(j)' = JobSource(j)
      /\ \A f, o, c : FileBytes(f, o, c)' = FileBytes(f, o, c)
  BY Frame
<1>5. ASSUME Begun', Finished' = job PROVE Found' /\ BurnedSoFar'
  <2>1. Found'
    BY <1>2, <1>4, <1>5 DEF PlanInv, Found
  <2>2. (MaxOf(0, Finished - Len(BootJobs)))' = MaxOf(0, Finished - Len(BootJobs))
    BY <1>2, <1>4, <1>5 DEF MaxOf
  <2>3. BurnedSoFar'
    BY <1>1, <1>2, <1>4, <2>2 DEF PlanInv, BurnedSoFar
  <2>. QED
    BY <2>1, <2>3
<1>6. CASE job = Len(AllJobs)
  <2>1. pc' = "done" /\ job' = job /\ Begun' /\ Finished' = job
    BY <1>1, <1>2, <1>6 DEF Begun, Finished
  <2>2. PlanType'
    BY <1>1, <1>2, <1>3, <1>4, <1>6, <2>1 DEF PlanType
  <2>3. Untouched'
    BY <1>1, <1>2, <1>4, <2>1 DEF PlanInv, Untouched
  <2>4. Progress'
    BY <2>1 DEF Progress
  <2>. QED
    BY <1>5, <2>1, <2>2, <2>3, <2>4 DEF PlanInv
<1>7. CASE job # Len(AllJobs)
  <2>1. PICK n \in 1 .. Len(AllJobs) : n = job + 1
    BY <1>2, <1>7
  <2>2. AllJobs[n].kind \in {"find", "file", "sum", "media"}
    BY <1>2, JobShape
  <2>3. /\ job' = n /\ pc' = AllJobs[n].kind /\ ThisJob' = AllJobs[n]
        /\ Source' = JobSource(AllJobs[n])
    <3>1. job' = n /\ pc' = AllJobs[n].kind /\ ThisJob' = AllJobs[n]
      BY <1>1, <1>2, <1>7, <2>1 DEF ThisJob
    <3>2. Source' = JobSource(AllJobs[n])
      BY <1>4, <3>1 DEF Source, JobSource
    <3>. QED
      BY <3>1, <3>2
  <2>4. Begun' /\ Finished' = job
    BY <1>2, <2>1, <2>2, <2>3 DEF Begun, Finished
  <2>5. PlanType'
    <3>1. job' > 0 /\ job' \in 0 .. Len(AllJobs)
      BY <1>2, <2>1, <2>3
    <3>2. (pc \in Phases(ThisJob.kind))'
      BY <2>2, <2>3 DEF Phases
    <3>3. pc' \notin {"open", "choose", "collect"}
      BY <2>2, <2>3
    <3>. QED
      BY <1>1, <1>2, <1>3, <1>4, <3>1, <3>2, <3>3 DEF PlanType
  <2>6. Untouched'
    <3>. SUFFICES ASSUME NEW i \in DOMAIN image.items,
                         Item(i).main \in {"PARTITION", "dtb"}
                  PROVE \/ cursor[i] = 0
                        \/ \E m \in 1 .. Len(AllJobs) :
                              /\ AllJobs[m].kind = "media" /\ JobSource(AllJobs[m]) = i
                              /\ m < n
      BY <1>1, <1>4, <2>3, <2>4 DEF Untouched
    <3>1. \/ cursor[i] = 0
          \/ \E m \in 1 .. Len(AllJobs) :
                /\ AllJobs[m].kind = "media" /\ JobSource(AllJobs[m]) = i
                /\ m < job \/ m = job
      BY <1>1, <1>2 DEF PlanInv, Untouched
    <3>. QED
      BY <1>2, <2>1, <3>1
  <2>7. Progress'
    <3>. SUFFICES ASSUME AllJobs[n].kind # "find" PROVE Progress'
      BY <2>3 DEF Progress
    <3>1. /\ JobSource(AllJobs[n]) \in DOMAIN image.items
          /\ AllJobs[n].kind = "media" => cursor[JobSource(AllJobs[n])] = 0
      <4>1. job < Len(AllJobs)
        BY <1>2, <1>7
      <4>. QED
        BY <1>1, <2>1, <4>1, NextSource
    <3>2. pc' \in {"file", "sum", "media"}
      BY <2>2, <2>3
    <3>. QED
      BY <1>1, <2>3, <3>1, <3>2 DEF Progress
  <2>. QED
    BY <1>5, <2>4, <2>5, <2>6, <2>7 DEF PlanInv
<1>. QED
  BY <1>6, <1>7

\* The reads of an ADNL burn keep the cursors in their items, and no promise
\* about a plan there is none of.
LEMMA AdnlStep ==
  ASSUME PlanInv, AdnlReads, UNCHANGED <<image, board>>
  PROVE PlanInv'
<1>1. pc' = "adnl" /\ Next /\ scan' = scan /\ written' = written
  BY DEF AdnlReads, hostVars
<1>2. scan \in 0 .. Len(image.items) /\ written \in Nat /\ CursorsWithin
  BY DEF PlanInv, PlanType
<1>3. CursorsWithin'
  BY <1>1, <1>2, NextCursors
<1>. QED
  BY <1>1, <1>2, <1>3, Fails

LEMMA PlanKeeps == PlanInv /\ [PlanNext]_planVars => PlanInv'
<1>. SUFFICES ASSUME PlanInv, [PlanNext]_planVars PROVE PlanInv'
  OBVIOUS
<1>1. CASE PlanNext
  <2>1. UNCHANGED <<image, board>>
    BY <1>1 DEF PlanNext
  <2>2. CASE Open \/ Choose
    BY <2>1, <2>2, OpenStep
  <2>3. CASE Collect
    BY <2>1, <2>3, CollectStep
  <2>4. CASE Plan
    BY <2>1, <2>4, PlanStep
  <2>5. CASE NextJob
    BY <2>1, <2>5, NextJobStep
  <2>6. CASE Find
    BY <2>1, <2>6, FindStep
  <2>7. CASE StartFile
    BY <2>1, <2>7, StartFileStep
  <2>8. CASE FileStep
    BY <2>1, <2>8, FileBlockStep
  <2>9. CASE EndFile
    BY <2>1, <2>9, EndFileStep
  <2>10. CASE SumRewind
    BY <2>1, <2>10, SumRewindStep
  <2>11. CASE SumRead
    BY <2>1, <2>11, SumReadStep
  <2>12. CASE StartMedia
    BY <2>1, <2>12, StartMediaStep
  <2>13. CASE MediaStep
    BY <2>1, <2>13, MediaBlockStep
  <2>14. CASE Status
    BY <2>1, <2>14, StatusStep
  <2>15. CASE Verify
    BY <2>1, <2>15, VerifyStep
  <2>16. CASE AdnlReads
    BY <2>1, <2>16, AdnlStep
  <2>. QED
    BY <1>1, <2>2, <2>3, <2>4, <2>5, <2>6, <2>7, <2>8, <2>9, <2>10, <2>11, <2>12,
       <2>13, <2>14, <2>15, <2>16 DEF PlanNext
<1>2. CASE UNCHANGED planVars
  <2>1. UNCHANGED <<image, board, cursor, pc, scan, jobs, job, written, sent, burned>>
    BY <1>2 DEF planVars, itemVars, hostVars
  <2>2. /\ AllJobs' = AllJobs /\ BootJobs' = BootJobs
        /\ \A i : Item(i)' = Item(i)
        /\ \A j : JobSource(j)' = JobSource(j)
        /\ \A f, o, c : FileBytes(f, o, c)' = FileBytes(f, o, c)
        /\ ThisJob' = ThisJob /\ Source' = Source /\ FileSize' = FileSize
    BY <2>1, Frame, FrameJob
  <2>3. (Begun' <=> Begun) /\ Finished' = Finished
        /\ CursorsWithin' /\ (\A k : Phases(k)' = Phases(k))
    BY <2>1, <2>2 DEF Begun, Finished, PlanInv, PlanType, CursorsWithin, Phases
  <2>4. PlanType'
    BY <2>1, <2>2, <2>3 DEF PlanInv, PlanType
  <2>5. Found' /\ Untouched'
    BY <2>1, <2>2, <2>3 DEF PlanInv, Found, Untouched
  <2>6. BurnedSoFar'
    BY <2>1, <2>2, <2>3 DEF PlanInv, BurnedSoFar, MaxOf
  <2>7. (\A c : Sends(c)' <=> Sends(c)) /\ (FileProgress' <=> FileProgress)
    BY <2>1, <2>2 DEF Sends, FileProgress
  <2>8. Progress'
    BY <2>1, <2>2, <2>3, <2>7 DEF PlanInv, Progress, MinOf, Sends
  <2>. QED
    BY <2>4, <2>5, <2>6, <2>8 DEF PlanInv
<1>. QED
  BY <1>1, <1>2

\* While get_burn_steps collects and do_burn runs its steps, the cursors stay in
\* their items, an item for storage is read by its own job only, and what was
\* burnt so far is what the plan has up to the job in hand.
THEOREM PlanInvariance == PlanSpec => []PlanInv
BY PlanInitial, PlanKeeps, PTL DEF PlanSpec

----------------------------------------------------------------------------
(* The burn as a user of files. *)

\* A step of the burn reads or seeks one item, or none.
LEMMA PlanUses ==
  ASSUME PlanInv, PlanNext
  PROVE \/ UNCHANGED <<image, itemVars>>
        \/ Next
        \/ /\ image' = image
           /\ \E i \in DOMAIN image.items :
                 \/ \E n \in Nat \cup {-1} : Read(i, n)
                 \/ Seek(i, 0, 0)
<1>1. image' = image
  BY DEF PlanNext
<1>2. -1 \in Nat \cup {-1} /\ FileBlock \in Nat \cup {-1} /\ MediaBlock \in Nat \cup {-1}
  BY PlanAssumption
<1>3. ASSUME pc \in WorkAt \ {"find"} PROVE Source \in DOMAIN image.items
  BY <1>3, AtWork, InHand DEF WorkAt
<1>4. CASE Open \/ Choose \/ Plan \/ NextJob \/ Find \/ EndFile \/ StartMedia \/ Status
  <2>1. NothingRead
    BY <1>4 DEF Open, Choose, Plan, NextJob, Find, EndFile, StartMedia, Status
  <2>. QED
    BY <1>1, <2>1 DEF NothingRead
<1>5. CASE Collect
  <2>1. scan \in 0 .. Len(image.items) /\ image \in Images /\ scan < Len(image.items)
    BY <1>5 DEF PlanInv, PlanType, CursorsWithin, Collect
  <2>2. scan + 1 \in DOMAIN image.items
    BY <2>1, ItemsLength
  <2>3. Read(scan + 1, -1) \/ NothingRead
    BY <1>5 DEF Collect
  <2>. QED
    BY <1>1, <1>2, <2>2, <2>3 DEF NothingRead
<1>6. CASE StartFile \/ SumRewind
  <2>1. pc \in WorkAt \ {"find"} /\ Seek(Source, 0, 0)
    BY <1>6 DEF StartFile, SumRewind, WorkAt
  <2>. QED
    BY <1>1, <1>3, <2>1
<1>7. CASE FileStep \/ SumRead \/ MediaStep
  <2>1. /\ pc \in WorkAt \ {"find"}
        /\ Read(Source, FileBlock) \/ Read(Source, -1) \/ Read(Source, MediaBlock)
    BY <1>7 DEF FileStep, SumRead, MediaStep, WorkAt
  <2>. QED
    BY <1>1, <1>2, <1>3, <2>1
<1>8. CASE Verify
  <2>1. PICK v : v = VerifyItem(ThisJob.sub)
    OBVIOUS
  <2>2. image \in Images
    BY DEF PlanInv, PlanType, CursorsWithin
  <2>3. v # 0 => v \in DOMAIN image.items
    BY <2>1, <2>2, LastItemFound DEF VerifyItem, Named
  <2>4. (v = 0 /\ NothingRead) \/ (v # 0 /\ Read(v, -1))
    BY <1>8, <2>1 DEF Verify
  <2>. QED
    BY <1>1, <1>2, <2>3, <2>4 DEF NothingRead
<1>9. CASE AdnlReads
  BY <1>9 DEF AdnlReads
<1>. QED
  BY <1>4, <1>5, <1>6, <1>7, <1>8, <1>9 DEF PlanNext

LEMMA PlanIsFiles == PlanInv /\ [PlanNext]_planVars => [Files!Next]_(Files!vars)
<1>. SUFFICES ASSUME PlanInv, [PlanNext]_planVars PROVE [Files!Next]_(Files!vars)
  OBVIOUS
<1>1. CursorsWithin
  BY DEF PlanInv, PlanType
<1>2. UNCHANGED planVars => UNCHANGED <<image, itemVars>>
  BY DEF planVars
<1>3. CASE [Next]_<<image, itemVars>>
  BY <1>1, <1>3, NextIsFiles
<1>4. ASSUME image' = image, NEW i \in DOMAIN image.items, NEW n \in Nat \cup {-1}, Read(i, n)
      PROVE Files!Next
  <2>1. Files!Read(i)
    BY <1>1, <1>4, ReadIsFileRead
  <2>. QED
    BY <2>1 DEF Files!Next
<1>5. ASSUME image' = image, NEW i \in DOMAIN image.items, Seek(i, 0, 0)
      PROVE Files!Next
  <2>1. 0 \in Int /\ 0 \in 0 .. 2 /\ (0 = 0 => 0 >= 0)
    OBVIOUS
  <2>2. Files!Seek(i)
    BY <1>1, <1>5, <2>1, SeekIsFileSeek
  <2>. QED
    BY <2>2 DEF Files!Next
<1>. QED
  BY <1>2, <1>3, <1>4, <1>5, PlanUses

\* Whatever a burn reads, by either protocol, it reads as if every item were a
\* file of its own: no step takes a byte of a neighbour or moves the position
\* of another item.
THEOREM PlanReadsFiles == PlanSpec => ItemsAreFiles
<1>1. PlanInit => ImageInit
  BY DEF PlanInit
<1>. QED
  BY <1>1, InitIsFiles, PlanIsFiles, PlanInvariance, PTL DEF PlanSpec, ItemsAreFiles, Files!Spec

----------------------------------------------------------------------------
(* A job that passes has sent its item. *)

\* The number of blocks of a size that is not more than so many blocks, and
\* more than one less.
LEMMA BlocksOf ==
  ASSUME NEW B \in Nat \ {0}, NEW k \in Nat, NEW size \in Nat,
         k * B >= size, k * B < size + B
  PROVE ((size + B - 1) \div B) * B = k * B
<1>1. PICK r \in 0 .. B - 1 : r = size + B - 1 - k * B
  <2>1. size + B - 1 - k * B \in 0 .. B - 1
    <3>1. PICK t \in Nat : t = k * B
      OBVIOUS
    <3>. QED
      BY <3>1
  <2>. QED
    BY <2>1
<1>2. size + B - 1 = B * k + r /\ size + B - 1 \in Nat
  BY <1>1
<1>3. (size + B - 1) \div B = k
  <2>1. PICK x \in Nat : x = size + B - 1 /\ x = B * k + r
    BY <1>2
  <2>2. x \div B = k
    BY <2>1
  <2>. QED
    BY <2>1, <2>2
<1>. QED
  BY <1>3

LEMMA SendsPrefix ==
  ASSUME CursorsWithin, Source \in DOMAIN image.items, NEW c \in 0 .. Item(Source).size,
         Sends(c)
  PROVE /\ sent = SubSeq(Content(Source), 1, Len(sent))
        /\ Len(sent) = MinOf(c, Len(Content(Source)))
<1>1. PICK f : f = Item(Source).file
  OBVIOUS
<1>2. PICK o \in Nat : o = Item(Source).offset
  BY SourceType
<1>3. PICK size \in Nat : size = Item(Source).size
  BY SourceType
<1>4. image.files[f] \in Nat /\ c \in Nat /\ c <= size
  BY <1>1, <1>3, SourceType
<1>5. sent = FileBytes(f, o, c) /\ Content(Source) = FileBytes(f, o, size)
  BY <1>1, <1>2, <1>3 DEF Sends, Content
<1>6. sent = SubSeq(Content(Source), 1, Len(sent))
  <2>1. FileBytes(f, o, c) = SubSeq(FileBytes(f, o, size), 1, Len(FileBytes(f, o, c)))
    BY <1>4, BytesPrefix
  <2>. QED
    BY <1>5, <2>1
<1>7. Len(sent) = Reached(f, o, c) /\ Len(Content(Source)) = Reached(f, o, size)
  BY <1>4, <1>5, FileBytesLength
<1>8. Reached(f, o, c) = MinOf(c, Reached(f, o, size))
  BY <1>4 DEF Reached, MinOf, MaxOf
<1>. QED
  BY <1>6, <1>7, <1>8

LEMMA PassesWholeHolds == PlanInv => PassesWhole
<1>. SUFFICES ASSUME PlanInv, job > 0, pc \notin Ended, ThisJob.kind # "find"
              PROVE /\ sent = SubSeq(Content(Source), 1, Len(sent))
                    /\ pc = "next" =>
                          /\ Len(sent) = MinOf(Wanted, Len(Content(Source)))
                          /\ ThisJob.kind = "media" => Len(sent) = Wanted
                          /\ ThisJob.kind = "file" /\ FileSize > 0 =>
                                Len(sent) > FileSize - FileBlock
  BY DEF PassesWhole
<1>2. Begun /\ pc # "done"
  <2>1. pc \in {"open", "choose", "collect"} => job = 0
    BY DEF PlanInv, PlanType
  <2>. QED
    BY <2>1 DEF Begun, Ended
<1>3. /\ CursorsWithin /\ Source \in DOMAIN image.items /\ written \in Nat
      /\ ThisJob.kind \in {"file", "sum", "media"}
  BY <1>2, InHand DEF PlanInv, PlanType
<1>4. /\ Item(Source).size \in Nat /\ cursor[Source] \in 0 .. Item(Source).size
      /\ FileSize \in 0 .. Item(Source).size
      /\ Item(Source).size \in 0 .. Item(Source).size
      /\ MinOf(written, Item(Source).size) \in 0 .. Item(Source).size
  BY <1>3, SourceType DEF MinOf
<1>5. Len(Content(Source)) \in 0 .. Item(Source).size
  <2>1. Len(Content(Source))
          = Reached(Item(Source).file, Item(Source).offset, Item(Source).size)
    <3>1. /\ Item(Source).offset \in Nat /\ Item(Source).size \in Nat
          /\ image.files[Item(Source).file] \in Nat
      BY <1>3, SourceType
    <3>. QED
      BY <3>1, BytesCounted DEF Content
  <2>. QED
    BY <1>3, <2>1, SourceType, ReachedType
<1>6. CASE pc = "next" /\ ThisJob.kind # "file"
  <2>1. /\ Sends(Item(Source).size)
        /\ ThisJob.kind = "media" => Len(sent) = Item(Source).size
    BY <1>2, <1>6 DEF PlanInv, Progress
  <2>2. Wanted = Item(Source).size
    BY <1>6 DEF Wanted
  <2>. QED
    BY <1>3, <1>4, <1>6, <2>1, <2>2, SendsPrefix
<1>7. CASE pc = "next" /\ ThisJob.kind = "file"
  <2>1. /\ FileProgress /\ written >= FileSize
        /\ Sends(MinOf(written, Item(Source).size))
    BY <1>2, <1>7 DEF PlanInv, Progress
  <2>2. PICK k \in Nat : written = k * FileBlock
    BY <2>1 DEF FileProgress
  <2>3. ((FileSize + FileBlock - 1) \div FileBlock) * FileBlock = written
    <3>1. FileBlock \in Nat \ {0} /\ FileSize \in Nat
      BY <1>4, PlanAssumption
    <3>2. k * FileBlock >= FileSize /\ k * FileBlock < FileSize + FileBlock
      BY <2>1, <2>2 DEF FileProgress
    <3>. QED
      BY <2>2, <3>1, <3>2, BlocksOf
  <2>4. Wanted = MinOf(Item(Source).size, written)
    BY <1>7, <2>3 DEF Wanted
  <2>5. Wanted = MinOf(written, Item(Source).size)
    BY <1>3, <1>4, <2>4 DEF MinOf
  <2>6. FileSize > 0 => Len(sent) > FileSize - FileBlock
    <3>1. written > 0 => Len(sent) > written - FileBlock
      BY <2>1 DEF FileProgress
    <3>2. Len(sent) = MinOf(MinOf(written, Item(Source).size), Len(Content(Source)))
      BY <1>3, <1>4, <2>1, SendsPrefix
    <3>3. Len(sent) \in Nat
      BY <1>4, <1>5, <3>2 DEF MinOf
    <3>. QED
      BY <1>3, <1>4, <2>1, <3>1, <3>3, PlanAssumption
  <2>. QED
    BY <1>3, <1>4, <1>7, <2>1, <2>5, <2>6, SendsPrefix
<1>8. CASE pc # "next"
  <2>1. job > 0 /\ pc \in Phases(ThisJob.kind)
    BY <1>2, <1>8 DEF PlanInv, PlanType
  <2>2. \/ sent = <<>>
        \/ Sends(cursor[Source])
        \/ Sends(Item(Source).size)
    BY <1>2, <1>3, <2>1 DEF PlanInv, Progress, Phases
  <2>3. CASE sent = <<>>
    <3>1. Len(<<>>) = 0 /\ SubSeq(Content(Source), 1, 0) = <<>>
      BY SubSeqEmpty
    <3>. QED
      BY <1>8, <2>3, <3>1
  <2>. QED
    BY <1>3, <1>4, <1>8, <2>2, <2>3, SendsPrefix
<1>. QED
  BY <1>6, <1>7, <1>8

\* Whatever was read of other items before, every read of a burn sends its item
\* from the first byte on, and a download to storage that passed is whole
\* (_download_file and _download_media).
THEOREM EveryJobWhole == PlanSpec => []PassesWhole
BY PlanInvariance, PassesWholeHolds, PTL

----------------------------------------------------------------------------
(* A burn that is done has burnt the right items. *)

\* The items burnt, by the item that opened their step.
LEMMA BurnedAtEnd ==
  ASSUME PlanInv, pc = "done"
  PROVE /\ image \in Images
        /\ \E p : /\ IsIndex(p, Len(image.items)) /\ Len(p) \in Nat
                  /\ \A k \in 1 .. Len(p) : p[k] \in DOMAIN image.items /\ IsPart(p[k])
                  /\ DOMAIN burned = 1 .. Len(p)
                  /\ \A k \in 1 .. Len(p) : burned[k] = JobSource(MediaJob(p[k]))
<1>1. /\ image \in Images /\ job = Len(AllJobs)
      /\ burned = [k \in 1 .. MaxOf(0, job - Len(BootJobs)) |->
                      JobSource(AllJobs[Len(BootJobs) + k])]
  BY DEF PlanInv, PlanType, BurnedSoFar, Begun, Finished, Phases, CursorsWithin
<1>2. PICK p : JobsAt(p)
  BY <1>1, AllJobsShape
<1>3. /\ Len(p) \in Nat /\ Len(BootJobs) \in Nat
      /\ Len(AllJobs) = Len(BootJobs) + Len(p)
      /\ \A k \in 1 .. Len(p) :
            p[k] \in DOMAIN image.items /\ IsPart(p[k])
            /\ AllJobs[Len(BootJobs) + k] = MediaJob(p[k])
  BY <1>2 DEF JobsAt
<1>4. MaxOf(0, job - Len(BootJobs)) = Len(p)
  BY <1>1, <1>3 DEF MaxOf
<1>5. /\ DOMAIN burned = 1 .. Len(p)
      /\ \A k \in 1 .. Len(p) : burned[k] = JobSource(MediaJob(p[k]))
  <2>1. burned = [k \in 1 .. Len(p) |-> JobSource(AllJobs[Len(BootJobs) + k])]
    BY <1>1, <1>4
  <2>. QED
    BY <1>3, <2>1
<1>. QED
  BY <1>1, <1>2, <1>3, <1>5 DEF JobsAt

\* A name that items have.
LEMMA NameFound ==
  ASSUME image \in Images, NEW main, NEW sub
  PROVE LastItem(main, sub) # 0 <=> \E i \in DOMAIN image.items : Name(i) = <<main, sub>>
BY LastItemFound DEF Named, Name

LEMMA PartNameFound ==
  ASSUME image \in Images, NEW sub
  PROVE LastItem("dtb", sub) # 0 <=> <<"dtb", sub>> \in PartNames
<1>1. \A i : Name(i) = <<"dtb", sub>> => Item(i).main \in {"PARTITION", "dtb"}
  BY DEF Name
<1>. QED
  BY <1>1, NameFound DEF PartNames

\* The signed device tree takes the place of the plain one exactly when the
\* board is secure and the image has both, the signed one not empty.
LEMMA TreeTaken ==
  ASSUME image \in Images, NEW i \in DOMAIN image.items
  PROVE PartName(i) # Item(i).sub =>
           TakesSigned /\ Name(i) = PlainTree /\ PartName(i) = "meson1_ENC"
<1>. SUFFICES ASSUME PartName(i) # Item(i).sub
              PROVE TakesSigned /\ Name(i) = PlainTree /\ PartName(i) = "meson1_ENC"
  OBVIOUS
<1>1. /\ Item(i).main = "dtb" /\ Item(i).sub = "meson1" /\ board.secure
      /\ LastItem("dtb", "meson1_ENC") # 0
      /\ Item(LastItem("dtb", "meson1_ENC")).size # 0
      /\ PartName(i) = "meson1_ENC"
  BY DEF PartName
<1>2. Name(i) = PlainTree
  BY <1>1 DEF Name, PlainTree
<1>3. PlainTree \in PartNames /\ SignedTree \in PartNames
  BY <1>1, <1>2, PartNameFound DEF PartNames, SignedTree
<1>. QED
  BY <1>1, <1>2, <1>3 DEF TakesSigned

LEMMA TreeKept ==
  ASSUME image \in Images, NEW i \in DOMAIN image.items
  PROVE TakesSigned /\ Name(i) = PlainTree => PartName(i) = "meson1_ENC"
<1>. SUFFICES ASSUME TakesSigned, Name(i) = PlainTree PROVE PartName(i) = "meson1_ENC"
  OBVIOUS
<1>1. Item(i).main = "dtb" /\ Item(i).sub = "meson1"
  BY DEF Name, PlainTree
<1>2. /\ board.secure /\ LastItem("dtb", "meson1_ENC") # 0
      /\ Item(LastItem("dtb", "meson1_ENC")).size # 0
  BY PartNameFound DEF TakesSigned, SignedTree
<1>. QED
  BY <1>1, <1>2 DEF PartName

\* The name of the item a step burns.
LEMMA BurntName ==
  ASSUME image \in Images, NEW i \in DOMAIN image.items, IsPart(i)
  PROVE LET s == JobSource(MediaJob(i))
        IN  /\ s \in DOMAIN image.items /\ Name(s) = <<Item(i).main, PartName(i)>>
            /\ Item(s).main \in {"PARTITION", "dtb"}
            /\ \A j \in DOMAIN image.items : Name(j) = Name(s) => j <= s
            /\ Name(s) = SignedTree <=> TakesSigned /\ Name(i) = PlainTree
            /\ Name(s) # SignedTree => Name(s) = Name(i)
            /\ Name(s) = PlainTree => ~TakesSigned
<1>1. PICK s : s = JobSource(MediaJob(i))
  OBVIOUS
<1>2. /\ s \in DOMAIN image.items /\ Item(s).main = Item(i).main
      /\ Item(s).sub = PartName(i) /\ Item(s).main \in {"PARTITION", "dtb"}
      /\ s = LastItem(Item(i).main, PartName(i))
  BY <1>1, PartJobSource DEF JobSource, MediaJob, Job
<1>3. Name(s) = <<Item(i).main, PartName(i)>>
  BY <1>2 DEF Name
<1>4. ASSUME NEW j \in DOMAIN image.items, Name(j) = Name(s) PROVE j <= s
  <2>1. j \in Named(Item(i).main, PartName(i))
    BY <1>3, <1>4 DEF Name, Named
  <2>. QED
    BY <1>2, <2>1, LastItemFound
<1>5. Name(i) # SignedTree
  BY DEF IsPart, Name, SignedTree
<1>6. CASE PartName(i) = Item(i).sub
  <2>1. Name(s) = Name(i)
    BY <1>3, <1>6 DEF Name
  <2>2. TakesSigned => Name(i) # PlainTree
    <3>1. Name(i) = PlainTree => Item(i).sub = "meson1"
      BY DEF Name, PlainTree
    <3>. QED
      BY <1>6, <3>1, TreeKept
  <2>. QED
    BY <1>1, <1>2, <1>3, <1>4, <1>5, <2>1, <2>2
<1>7. CASE PartName(i) # Item(i).sub
  <2>1. TakesSigned /\ Name(i) = PlainTree /\ PartName(i) = "meson1_ENC"
    BY <1>7, TreeTaken
  <2>2. Name(s) = SignedTree
    BY <1>3, <2>1 DEF Name, PlainTree, SignedTree
  <2>3. SignedTree # PlainTree
    BY DEF PlainTree, SignedTree
  <2>. QED
    BY <1>1, <1>2, <1>3, <1>4, <2>1, <2>2, <2>3
<1>. QED
  BY <1>6, <1>7

\* A name of a partition or a device tree has an item that opens its step.
LEMMA NameOpens ==
  ASSUME image \in Images, NEW name \in PartNames, name # SignedTree
  PROVE \E i \in DOMAIN image.items : IsPart(i) /\ Name(i) = name
<1>1. PICK j \in DOMAIN image.items : name = Name(j)
                                      /\ Item(j).main \in {"PARTITION", "dtb"}
  BY DEF PartNames
<1>2. j \in Named(Item(j).main, Item(j).sub)
  BY DEF Named
<1>3. PICK i \in Named(Item(j).main, Item(j).sub) :
        \A k \in 1 .. i - 1 : k \notin Named(Item(j).main, Item(j).sub)
  BY <1>2, FirstOfName
<1>4. i \in DOMAIN image.items /\ Item(i).main = Item(j).main /\ Item(i).sub = Item(j).sub
  BY <1>3 DEF Named
<1>5. Name(i) = name
  BY <1>1, <1>4 DEF Name
<1>6. ASSUME NEW k \in 1 .. i - 1, Item(k).main = Item(i).main
      PROVE Item(k).sub # Item(i).sub
  <2>1. k \in DOMAIN image.items
    BY <1>4, ItemsLength
  <2>. QED
    BY <1>3, <1>4, <1>6, <2>1 DEF Named
<1>7. ~(Item(i).main = "dtb" /\ Item(i).sub = "meson1_ENC")
  BY <1>5 DEF Name, SignedTree
<1>8. IsPart(i)
  BY <1>1, <1>4, <1>6, <1>7 DEF IsPart
<1>. QED
  BY <1>4, <1>5, <1>8

\* The place of a step is that of the item that opened it.
LEMMA FirstOpens ==
  ASSUME image \in Images, NEW i \in DOMAIN image.items, IsPart(i)
  PROVE First(Name(JobSource(MediaJob(i)))) = i
<1>1. PICK name : name = Name(JobSource(MediaJob(i)))
  OBVIOUS
<1>2. (IF name = SignedTree THEN PlainTree ELSE name) = Name(i)
  BY <1>1, BurntName
<1>3. First(name) = CHOOSE k \in DOMAIN image.items :
                       Name(k) = Name(i) /\ \A j \in 1 .. k - 1 : Name(j) # Name(i)
  BY <1>2 DEF First
<1>4. \A j \in 1 .. i - 1 : Name(j) # Name(i)
  BY DEF IsPart, Name
<1>5. ASSUME NEW k \in DOMAIN image.items, Name(k) = Name(i),
             \A j \in 1 .. k - 1 : Name(j) # Name(i)
      PROVE k = i
  <2>1. ~(k < i) /\ ~(i < k)
    <3>1. k < i => k \in 1 .. i - 1
      BY ItemsLength
    <3>2. i < k => i \in 1 .. k - 1
      BY ItemsLength
    <3>. QED
      BY <1>4, <1>5, <3>1, <3>2
  <2>. QED
    BY <2>1, ItemsLength
<1>. QED
  BY <1>1, <1>3, <1>4, <1>5

LEMMA RightStepsHolds == PlanInv => RightSteps
<1>. SUFFICES ASSUME PlanInv, pc = "done"
              PROVE /\ {Name(burned[n]) : n \in DOMAIN burned} =
                          PartNames \ {IF TakesSigned THEN PlainTree ELSE SignedTree}
                    /\ \A n \in DOMAIN burned, i \in DOMAIN image.items :
                          Name(i) = Name(burned[n]) => i <= burned[n]
                    /\ \A n, o \in DOMAIN burned :
                          n < o => First(Name(burned[n])) < First(Name(burned[o]))
  BY DEF RightSteps
<1>1. image \in Images
  BY BurnedAtEnd
<1>2. PICK p : /\ IsIndex(p, Len(image.items)) /\ Len(p) \in Nat
               /\ \A k \in 1 .. Len(p) : p[k] \in DOMAIN image.items /\ IsPart(p[k])
               /\ DOMAIN burned = 1 .. Len(p)
               /\ \A k \in 1 .. Len(p) : burned[k] = JobSource(MediaJob(p[k]))
  BY BurnedAtEnd
<1>. DEFINE Left == IF TakesSigned THEN PlainTree ELSE SignedTree
<1>3. ASSUME NEW n \in DOMAIN burned PROVE Name(burned[n]) \in PartNames \ {Left}
  <2>1. /\ burned[n] \in DOMAIN image.items
        /\ Item(burned[n]).main \in {"PARTITION", "dtb"}
        /\ Name(burned[n]) = SignedTree => TakesSigned
        /\ Name(burned[n]) = PlainTree => ~TakesSigned
    BY <1>1, <1>2, BurntName
  <2>2. Name(burned[n]) \in PartNames
    BY <2>1 DEF PartNames
  <2>3. Name(burned[n]) # Left
    BY <2>1
  <2>. QED
    BY <2>2, <2>3
<1>4. ASSUME NEW name \in PartNames \ {Left}
      PROVE \E n \in DOMAIN burned : Name(burned[n]) = name
  <2>1. PICK key \in PartNames :
          key = (IF name = SignedTree THEN PlainTree ELSE name) /\ key # SignedTree
    <3>1. name = SignedTree => TakesSigned
      OBVIOUS
    <3>2. TakesSigned => PlainTree \in PartNames
      BY DEF TakesSigned
    <3>3. PlainTree # SignedTree
      BY DEF PlainTree, SignedTree
    <3>. QED
      BY <3>1, <3>2, <3>3
  <2>2. PICK i \in DOMAIN image.items : IsPart(i) /\ Name(i) = key
    BY <1>1, <2>1, NameOpens
  <2>3. PICK k \in 1 .. Len(p) : p[k] = i
    BY <1>1, <1>2, <2>2, ItemsLength DEF IsIndex
  <2>4. burned[k] = JobSource(MediaJob(i)) /\ k \in DOMAIN burned
    BY <1>2, <2>3
  <2>5. /\ Name(burned[k]) = SignedTree <=> TakesSigned /\ key = PlainTree
        /\ Name(burned[k]) # SignedTree => Name(burned[k]) = key
    BY <1>1, <2>2, <2>4, BurntName
  <2>6. CASE name = SignedTree
    BY <2>1, <2>4, <2>5, <2>6
  <2>7. CASE name # SignedTree
    <3>1. ~(TakesSigned /\ key = PlainTree)
      BY <2>1, <2>7
    <3>. QED
      BY <2>1, <2>4, <2>5, <2>7, <3>1
  <2>. QED
    BY <2>6, <2>7
<1>5. {Name(burned[n]) : n \in DOMAIN burned} = PartNames \ {Left}
  <2>. HIDE DEF Left
  <2>. QED
    BY <1>3, <1>4
<1>6. ASSUME NEW n \in DOMAIN burned, NEW i \in DOMAIN image.items,
             Name(i) = Name(burned[n])
      PROVE i <= burned[n]
  BY <1>1, <1>2, <1>6, BurntName
<1>7. ASSUME NEW n \in DOMAIN burned, NEW o \in DOMAIN burned, n < o
      PROVE First(Name(burned[n])) < First(Name(burned[o]))
  <2>1. p[n] < p[o]
    BY <1>2, <1>7 DEF IsIndex
  <2>2. First(Name(burned[n])) = p[n] /\ First(Name(burned[o])) = p[o]
    BY <1>1, <1>2, FirstOpens
  <2>. QED
    BY <2>1, <2>2
<1>. QED
  BY <1>5, <1>6, <1>7

\* A burn that succeeds has burnt every partition and device tree of the image
\* once, the last item of each name at the place of the first, and one of the
\* two device trees of a board that can be secure (get_burn_steps).
THEOREM BurnsTheRightItems == PlanSpec => []RightSteps
BY PlanInvariance, RightStepsHolds, PTL
=============================================================================
