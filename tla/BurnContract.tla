---------------------------- MODULE BurnContract ----------------------------
(***************************************************************************)
(* What burning an image promises, whichever protocol carries it: the      *)
(* storage is erased at most before anything is written, partitions are    *)
(* written one after the other, a finished one is never touched again, and *)
(* success is reported only when every partition holds its image.          *)
(***************************************************************************)
EXTENDS Integers

CONSTANT NumParts

VARIABLES content, outcome

vars == <<content, outcome>>

Parts == 1 .. NumParts

Init ==
    /\ content = [p \in Parts |-> "old"]
    /\ outcome = "running"

Erase ==
    /\ outcome # "done"
    /\ \A p \in Parts : content[p] = "old"
    /\ content' = [p \in Parts |-> "erased"]
    /\ UNCHANGED outcome

\* The device may still carry out the command in hand when the host gives up.
Write(p) ==
    /\ outcome # "done"
    /\ \A q \in 1 .. p - 1 : content[q] = "image"
    /\ \A q \in p + 1 .. NumParts : content[q] \in {"old", "erased"}
    /\ \E c \in {"partial", "image"} : content' = [content EXCEPT ![p] = c]
    /\ UNCHANGED outcome

Succeed ==
    /\ outcome = "running"
    /\ \A p \in Parts : content[p] = "image"
    /\ outcome' = "done"
    /\ UNCHANGED content

GiveUp ==
    /\ outcome = "running"
    /\ outcome' = "failed"
    /\ UNCHANGED content

Next == Erase \/ (\E p \in Parts : Write(p)) \/ Succeed \/ GiveUp

Spec == Init /\ [][Next]_vars
=============================================================================
