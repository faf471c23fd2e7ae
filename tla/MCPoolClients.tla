--------------------------- MODULE MCPoolClients ---------------------------
(* PoolClients for TLC: the handles are interchangeable. *)
EXTENDS PoolClients

Symmetry == Permutations(Handles)

=============================================================================
