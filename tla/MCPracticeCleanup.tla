-------------------------- MODULE MCPracticeCleanup --------------------------
(* Finite instances of PracticeCleanup for TLC.  Delays keep the order of the
   code's: TTL and Grace are shorter than Lease, the retry ladder does not
   decrease. *)
EXTENDS PracticeCleanup

CONSTANTS s1, s2, r1, r2
=============================================================================
