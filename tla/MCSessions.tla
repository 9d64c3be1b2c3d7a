----------------------------- MODULE MCSessions -----------------------------
(* Sessions on a small instance: session ids are interchangeable. *)
EXTENDS Sessions, TLC

Symmetry == Permutations(Session)
=============================================================================
