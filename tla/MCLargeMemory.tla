--------------------------- MODULE MCLargeMemory ---------------------------
(***************************************************************************)
(* Finite instances of LargeMemory for TLC.                                *)
(***************************************************************************)
EXTENDS LargeMemory

\* Up to four full chunks of the smaller block lengths, ragged tails included.
MCLengths == 0 .. 26
MCBlockLengths == 1 .. 5

=============================================================================
