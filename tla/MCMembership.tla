---------------------------- MODULE MCMembership ----------------------------
(* Membership on a small instance, and the symmetry of its accounts, which *)
(* no definition of Membership tells apart.                                *)
EXTENDS Membership, TLC

Symmetry == Permutations(User)
=============================================================================
