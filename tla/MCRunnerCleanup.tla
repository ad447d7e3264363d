--------------------------- MODULE MCRunnerCleanup ---------------------------
(* Finite instances of RunnerCleanup, and of TerminalSlots in it, for TLC. *)
EXTENDS RunnerCleanup, TLC

CONSTANTS w1, a1, a2, r1, r2, s1, s2

Symmetry == Permutations(Attachers) \cup Permutations(Tasks) \cup Permutations(Slots)
=============================================================================
