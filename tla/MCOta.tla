------------------------------- MODULE MCOta -------------------------------
(* Small instances of Ota for TLC. *)
EXTENDS Ota, TLC

Symmetry == Permutations(Workers)
=============================================================================
