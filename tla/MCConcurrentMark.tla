-------------------------- MODULE MCConcurrentMark --------------------------
(* Symmetry for the safety runs of ConcurrentMark: no expression of the    *)
(* specification chooses among objects, roots or mutators.                 *)
EXTENDS ConcurrentMark, TLC

Symmetry ==
    Permutations(Objects) \cup Permutations(Roots) \cup Permutations(Mutators)

=============================================================================
