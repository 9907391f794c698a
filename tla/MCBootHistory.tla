--------------------------- MODULE MCBootHistory ---------------------------
(* BootHistory on small instances.                                         *)
EXTENDS BootHistory, TLC

Symmetry == Permutations(Conns) \cup Permutations(Timers) \cup Permutations(Starts)
=============================================================================
