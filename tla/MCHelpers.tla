----------------------------- MODULE MCHelpers -----------------------------
(***************************************************************************)
(* Bytes of one bit, chunks of three bytes and halves of four addresses    *)
(* bring every boundary within reach; three required lines are given, two  *)
(* more, a second platform, an optional and an unknown one come or not.    *)
(***************************************************************************)
EXTENDS Helpers

MCGivenLines == <<[key |-> "Platform", value |-> 1], [key |-> "Control0", value |-> 1],
                  [key |-> "Control1", value |-> 1]>>
MCLineKeys == {"Platform", "DDRLoad", "DDRRun", "UbootLoad", "Unknown"}
=============================================================================
