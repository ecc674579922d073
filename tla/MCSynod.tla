------------------------------ MODULE MCSynod ------------------------------
(* Synod for TLC: client values are interchangeable. *)
EXTENDS Synod, TLC

Values == Permutations(Value)
=============================================================================
