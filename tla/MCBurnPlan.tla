----------------------------- MODULE MCBurnPlan -----------------------------
(***************************************************************************)
(* Finite images and boards for TLC: packages laid out item after item,    *)
(* whole and cut at different bytes, and directories.                      *)
(***************************************************************************)
EXTENDS BurnPlan

Of(m, s, n) == [main |-> m, sub |-> s, type |-> "normal", size |-> n,
                verify |-> FALSE, of |-> m]
Text(m, s) == [Of("VERIFY", s, TextLength) EXCEPT !.of = m]
Verified(item) == [item EXCEPT !.verify = TRUE]
Typed(item, t) == [item EXCEPT !.type = t]

TableEnd == 1

\* A package of these items, without the last "cut" bytes.
Package(items, cut) ==
    LET end[n \in 0 .. Len(items)] == IF n = 0 THEN TableEnd ELSE end[n - 1] + items[n].size
    IN  [magic |-> TRUE, version |-> 1, table |-> TableEnd,
         files |-> <<MaxOf(0, end[Len(items)] - cut)>>,
         items |-> [n \in DOMAIN items |->
                       [main |-> items[n].main, sub |-> items[n].sub,
                        type |-> items[n].type, size |-> items[n].size,
                        verify |-> items[n].verify, of |-> items[n].of,
                        file |-> 1, offset |-> end[n - 1]]]]

Conf == Of("conf", "platform", 1)
PlainLoader == <<Of("USB", "DDR", 3), Of("USB", "UBOOT", 6)>>
SignedLoader == <<Of("USB", "DDR_ENC", 2), Of("USB", "UBOOT_ENC", 4)>>
Loaders == PlainLoader \o SignedLoader
Boot == Verified(Of("PARTITION", "boot", 4))
Trees == <<Of("dtb", "meson1", 2), Of("dtb", "meson1_ENC", 3)>>

Lists ==
    {<<Conf>> \o Loaders \o Trees \o <<Boot, Text("PARTITION", "boot")>>,
     <<Conf, Boot>> \o Trees \o Loaders \o <<Of("PARTITION", "boot", 2)>>,
     <<Text("PARTITION", "boot"), Boot, Conf>> \o Loaders,
     <<Of("dtb", "meson1_ENC", 2), Boot>> \o Loaders \o <<Conf>>,
     Loaders \o <<Conf, Of("dtb", "meson1", 2), Of("dtb", "meson1_ENC", 0)>>,
     \* two partitions of one sub type
     <<Conf, Boot, Verified(Of("dtb", "boot", 2)), Text("PARTITION", "boot")>> \o Loaders,
     <<Conf, Boot, Of("dtb", "boot", 2), Text("PARTITION", "boot"),
       Text("dtb", "boot")>> \o Loaders,
     \* a name twice, with the second one last or in front of others
     <<Conf>> \o Loaders \o <<Of("USB", "DDR", 2), Of("PARTITION", "a", 2),
       Of("PARTITION", "b", 2), Of("PARTITION", "a", 3)>>,
     \* file types
     <<Conf, Typed(Of("PARTITION", "a", 3), "sparse"),
       Typed(Of("PARTITION", "b", 3), "ubifs")>> \o Loaders,
     <<Conf, Typed(Of("PARTITION", "a", 3), "sparse")>> \o PlainLoader,
     \* more blocks than one, the last of two, three and one byte
     <<Conf, Of("PARTITION", "a", 6), Of("PARTITION", "b", 7)>> \o Loaders,
     <<Conf, Of("PARTITION", "a", 7), Of("PARTITION", "b", 5)>> \o Loaders,
     \* a U-Boot whose checksum cannot be computed
     <<Conf, Of("USB", "DDR", 2), Of("USB", "UBOOT", 5)>>,
     <<Conf, Of("USB", "DDR", 2), Of("USB", "UBOOT", 7), Boot>>,
     \* nothing to burn, nothing to configure, nothing to load
     <<Conf>> \o SignedLoader, Loaders, <<Conf, Boot>>, <<>>}

\* Two neighbours that are read and sought in any order.
AdnlList == <<Of("aml", "usb_flow", 3), Of("PARTITION", "boot", 2)>>

Entry(m, s, n, v) == [main |-> m, sub |-> s, type |-> "normal", size |-> n, verify |-> v]

Directories ==
    {OpenDir(<<Entry("conf", "platform", 1, FALSE), Entry("USB", "DDR", 3, FALSE),
               Entry("USB", "UBOOT", u, FALSE), Entry("PARTITION", "boot", n, v)>>) :
        u \in {4, 5}, n \in {0, 1, 2, 3, 6}, v \in BOOLEAN}
    \cup {OpenDir(<<Entry("aml", "usb_flow", 0, FALSE), Entry("PARTITION", "boot", 3, TRUE)>>)}

MCImages ==
    {Package(l, c) : l \in Lists, c \in {0, 1, 2, 3, 5, 8}}
    \cup {[Package(<<Conf>> \o Loaders, 0) EXCEPT !.magic = FALSE],
          [Package(<<Conf>> \o Loaders, 0) EXCEPT !.version = 3],
          [Package(<<Conf>>, 2) EXCEPT !.files = <<0>>]}
    \cup {Package(AdnlList, c) : c \in {0, 1, 3}}
    \cup Directories

MCBoards == [flow : {"ipl", "spl", "amlc", "old", "tpl"}, secure : BOOLEAN]
=============================================================================
