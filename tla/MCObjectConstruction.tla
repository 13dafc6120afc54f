------------------------ MODULE MCObjectConstruction ------------------------
\* An array of list nodes, and an object with data before its gc_ptr: members,
\* data and elements are told apart.
EXTENDS ObjectConstruction, TLC

CONSTANTS node, mixed

MCTypes == {node, mixed}
MCtype_size == node :> 1 @@ mixed :> 2
MCKinds == {<<node, 2>>, <<mixed, 1>>}
MCmembers == node :> {0} @@ mixed :> {1}

ConstructionSymmetry == Permutations(Threads) \cup Permutations(Cells)

=============================================================================
