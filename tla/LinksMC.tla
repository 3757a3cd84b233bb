------------------------------- MODULE LinksMC -------------------------------
(* Links for TLC: the console-facing adapter's handles are interchangeable. *)
EXTENDS Links, TLC

Symmetry == Permutations(ConsoleHandles)

=============================================================================
