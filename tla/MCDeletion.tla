----------------------------- MODULE MCDeletion -----------------------------
EXTENDS AccountDeletion, TLC
Symmetry == Permutations(Worker)
=============================================================================
