------------------------------ MODULE MCGateway ------------------------------
EXTENDS Gateway, TLC

Limits == [p \in Policy |-> 1]
Skews == {-3, -2, 2}
Symmetry == Permutations(AuthRequest) \cup Permutations(TodoRequest)
=============================================================================
