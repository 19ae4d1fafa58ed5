---------------------------- MODULE BootContract ----------------------------
(***************************************************************************)
(* What booting a board over USB promises, whichever tool does it: memory  *)
(* of a locked board is not written, U-Boot is written to DDR that was     *)
(* initialised before, and started only when all of it is there; a board   *)
(* that loses power loses everything.                                      *)
(***************************************************************************)
VARIABLES
    locked,
    ddr,            \* DDR is initialised
    written,        \* something was written to memory
    uboot,          \* the right U-Boot is in memory, all of it
    started         \* U-Boot runs, or is about to

vars == <<locked, ddr, written, uboot, started>>

\* A board may run the U-Boot it has in storage.
Init ==
    /\ locked \in BOOLEAN
    /\ ddr \in BOOLEAN
    /\ written = FALSE /\ uboot = FALSE
    /\ started \in BOOLEAN
    /\ started => ddr

Unlock ==
    /\ locked' = FALSE
    /\ UNCHANGED <<ddr, written, uboot, started>>

Write ==
    /\ ~locked
    /\ written' = TRUE
    /\ uboot' \in BOOLEAN
    /\ uboot' => ddr
    /\ UNCHANGED <<locked, ddr, started>>

\* BL2, used up by it or not, initialises DDR.
InitDdr ==
    /\ ~locked
    /\ ddr' \in {ddr, TRUE}
    /\ written' \in {written, FALSE}
    /\ UNCHANGED <<locked, uboot, started>>

Start ==
    /\ ~locked
    /\ ddr /\ uboot
    /\ started' = TRUE
    /\ written' \in {written, FALSE}
    /\ UNCHANGED <<locked, ddr, uboot>>

Stop ==
    /\ started' = FALSE
    /\ UNCHANGED <<locked, ddr, written, uboot>>

PowerUp ==
    /\ locked' \in BOOLEAN
    /\ ddr' = FALSE /\ written' = FALSE /\ uboot' = FALSE /\ started' = FALSE

Next == Unlock \/ Write \/ InitDdr \/ Start \/ Stop \/ PowerUp

Spec == Init /\ [][Next]_vars
=============================================================================
