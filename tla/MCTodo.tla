------------------------------- MODULE MCTodo -------------------------------
EXTENDS TodoCache, TLC
Symmetry == Permutations(Client) \cup Permutations(Reader)
=============================================================================
