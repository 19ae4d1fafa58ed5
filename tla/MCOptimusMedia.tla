--------------------------- MODULE MCOptimusMedia ---------------------------
(***************************************************************************)
(* Finite instances of the U-Boot phase of an Optimus burn for TLC.        *)
(***************************************************************************)
EXTENDS OptimusMedia
=============================================================================
