------------------------------- MODULE MCChain -------------------------------
(***************************************************************************)
(* A small instance of ChainAnchor for TLC.  The writers and the indexer    *)
(* meet only on the chain, which each reads and the indexer never changes:  *)
(* with one submission the poll runs while no writer is at work, and two    *)
(* submissions go without polls.                                            *)
(***************************************************************************)
EXTENDS ChainAnchor, TLC

Symmetric == Permutations(Writer)

AtWork == {w \in Writer : ~At(w, "idle")}

Explored ==
  /\ checkpoint # NoBlock \/ indexer.at # "idle" \/ rebuilds + failedPolls > 0 =>
       Cardinality(Submitted) <= 1 /\ faults = 0
  /\ indexer.at # "idle" => AtWork = {}
  /\ Cardinality(AtWork) <= Cardinality(Submitted)
=============================================================================
