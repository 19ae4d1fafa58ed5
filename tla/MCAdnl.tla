------------------------------- MODULE MCAdnl -------------------------------
(***************************************************************************)
(* Finite instances of the ADNL burn for TLC.                              *)
(***************************************************************************)
EXTENDS AdnlProps

AllItems == {"DDR", "DDR_ENC", "UBOOT", "UBOOT_ENC"}

Good == [start |-> "ROM", secure |-> FALSE, known |-> TRUE, items |-> AllItems,
         verify |-> Parts, splSize |-> DownloadSize, ubootSize |-> UbootSize,
         erase |-> TRUE, reset |-> TRUE]

GoodSetups ==
    {Good,
     [Good EXCEPT !.secure = TRUE, !.reset = FALSE],
     [Good EXCEPT !.start = "TPL", !.erase = FALSE],
     [Good EXCEPT !.start = "TPL", !.secure = TRUE]}

\* Boards and images the program must turn away.
OddSetups ==
    {[Good EXCEPT !.start = "OFF"],
     [Good EXCEPT !.start = "SPL"],
     [Good EXCEPT !.known = FALSE],
     [Good EXCEPT !.items = AllItems \ {"DDR"}],
     [Good EXCEPT !.secure = TRUE, !.items = AllItems \ {"UBOOT_ENC"}],
     [Good EXCEPT !.splSize = DownloadSize + 1],
     [Good EXCEPT !.ubootSize = UbootSize - 1],
     [Good EXCEPT !.verify = {1}]}

MCSetups == GoodSetups \cup OddSetups
=============================================================================
