---------------------------- MODULE InputRelayMC ----------------------------
(* InputRelay for TLC: the adapter's handles are interchangeable.          *)
EXTENDS InputRelay, TLC

Symmetry == Permutations(Handles)

=============================================================================
