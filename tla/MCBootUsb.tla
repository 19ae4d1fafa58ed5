------------------------------ MODULE MCBootUsb ------------------------------
(***************************************************************************)
(* Finite instances of BootUsb for TLC.                                    *)
(***************************************************************************)
EXTENDS BootUsb, TLC

File(n, r) == [len |-> n, ragged |-> r]

Setup(tool, files, resident, leaves, timeout, long) ==
    [tool |-> tool, files |-> files, resident |-> resident, leaves |-> leaves,
     timeout |-> timeout, longArgs |-> long]

\* Loader files that fit and are whole blocks, and others.
Loaders ==
    {("bl2" :> File(b[1], b[2]) @@ "ddrinit" :> File(1, d) @@ "runfip" :> File(1, r)
        @@ "tpl" :> File(2, t)) :
        b \in {<<2, FALSE>>, <<3, FALSE>>, <<2, TRUE>>}, d \in BOOLEAN,
        r \in BOOLEAN, t \in BOOLEAN}
GoodLoader ==
    "bl2" :> File(2, FALSE) @@ "ddrinit" :> File(1, FALSE) @@ "runfip" :> File(1, FALSE)
        @@ "tpl" :> File(2, TRUE)

\* Payloads of every size around the room they have.
Payloads ==
    {("image" :> File(i, r) @@ "dtb" :> File(d, r) @@ "ramfs" :> File(1, r)) :
        i \in 1 .. 3, d \in 1 .. 3, r \in BOOLEAN}
Scripts == {<<>>} \cup {("script" :> File(s, TRUE)) : s \in 1 .. 4}

MCSetups ==
    {Setup("boot", l, re, le, t, FALSE) :
        l \in Loaders, re \in BOOLEAN, le \in BOOLEAN, t \in BOOLEAN}
    \cup {Setup("boot", GoodLoader @@ p @@ s, re, FALSE, FALSE, FALSE) :
        p \in Payloads, s \in Scripts, re \in BOOLEAN}
    \cup {Setup("chain", "tpl" :> File(2, TRUE), FALSE, FALSE, t, FALSE) : t \in BOOLEAN}
    \cup {Setup("kernel", p, FALSE, FALSE, t, long) :
        p \in Payloads, t \in BOOLEAN, long \in BOOLEAN}
=============================================================================
