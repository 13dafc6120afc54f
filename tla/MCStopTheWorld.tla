--------------------------- MODULE MCStopTheWorld ---------------------------
(* Model values for the threads, and their symmetry for safety checking.   *)
EXTENDS StopTheWorld, TLC

CONSTANTS t1, t2, t3

Symmetry == Permutations(Threads)

=============================================================================
