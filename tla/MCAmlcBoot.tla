----------------------------- MODULE MCAmlcBoot -----------------------------
(***************************************************************************)
(* Finite instances of the AMLC boot for TLC.                              *)
(***************************************************************************)
EXTENDS AmlcBoot

\* Images that are too short at different places, that fit, and longer ones.
MCImageLengths == {0, 4, 9, 10, 12}
=============================================================================
