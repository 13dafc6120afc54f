---------------------------- MODULE MCIndexTree -----------------------------
EXTENDS IndexTree, TLC

Symmetry == Permutations(Threads) \cup Permutations(Levels)

\* Two pages in one last table, a third in a table beside it.
MCPages == {<<0, 0, 0>>, <<0, 0, 1>>, <<0, 1, 0>>}

=============================================================================
