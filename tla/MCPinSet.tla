------------------------------ MODULE MCPinSet ------------------------------
(* Instances of PinSet for TLC. *)
EXTENDS PinSet, TLC

\* malloc gives any block, and no object is special.
PinSymmetry == Permutations(Blocks) \cup Permutations(Objects)

=============================================================================
