------------------------------- MODULE Blocks -------------------------------
(***************************************************************************)
(* The block arithmetic that every chunked transfer of pyamlboot.py        *)
(* repeats: int(length / block), plus one when a remainder is left.        *)
(***************************************************************************)
EXTENDS Integers

CeilDiv(a, b) == a \div b + (IF a % b > 0 THEN 1 ELSE 0)
=============================================================================
