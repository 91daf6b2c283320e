----------------------------- MODULE MCTxStore -----------------------------
(* Instances of TxStore for TLC. *)
EXTENDS TxStore, TLC

CONSTANTS p1, p2, k1, k2

MCProcs == {p1, p2}
MCKeys == {k1, k2}
Symmetry == Permutations(MCProcs) \cup Permutations(MCKeys)

=============================================================================
