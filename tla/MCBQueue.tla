------------------------------ MODULE MCBQueue ------------------------------
(* Small instances of BQueue for TLC. *)
EXTENDS BQueue, TLC
\* Neither the threads nor the values sent are told apart.
Symmetry == Permutations(Threads) \cup Permutations(Items)
=============================================================================
