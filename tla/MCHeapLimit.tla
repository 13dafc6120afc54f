---------------------------- MODULE MCHeapLimit -----------------------------
(* The symmetry of threads and large objects, for safety checking.         *)
EXTENDS HeapLimit, TLC

Symmetry == Permutations(Threads) \cup Permutations(LargeObjects)

=============================================================================
