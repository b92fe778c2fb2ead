----------------------------- MODULE MCLifecycle -----------------------------
(* Small instances of Lifecycle for TLC. *)
EXTENDS Lifecycle

\* Distinct names and reasons stay distinct.
MCTruncExact == [x \in Names \cup Reasons |-> x]
=============================================================================
