----------------------------- MODULE ItemFiles -----------------------------
(***************************************************************************)
(* What the items of an image promise to those who read them: every item   *)
(* is a file of its own, with a position nobody else moves.                *)
(***************************************************************************)
EXTENDS Integers, Sequences

VARIABLES
    contents,       \* bytes present of each item
    sizes,          \* bytes each item is said to have
    position,
    got             \* what the last read returned

vars == <<contents, sizes, position, got>>

Init ==
    /\ position = [i \in DOMAIN sizes |-> 0]
    /\ got = <<>>

Move(i, to) == position' = [position EXCEPT ![i] = to]

\* Bytes from the position on, fewer only where the file is cut.
Read(i) ==
    /\ \E n \in 0 .. sizes[i] - position[i] :
          /\ Move(i, position[i] + n)
          /\ got' = [k \in {k \in 1 .. n : position[i] + k <= Len(contents[i])} |->
                        contents[i][position[i] + k]]
    /\ UNCHANGED <<contents, sizes>>

Seek(i) ==
    /\ \E to \in 0 .. sizes[i] : Move(i, to)
    /\ UNCHANGED <<contents, sizes, got>>

Next == \E i \in DOMAIN sizes : Read(i) \/ Seek(i)

Spec == Init /\ [][Next]_vars
=============================================================================
