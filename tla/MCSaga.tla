------------------------------- MODULE MCSaga -------------------------------
(* The saga for TLC: two interchangeable workers. *)
EXTENDS WorkflowSaga, TLC

WorkerSymmetry == Permutations(Worker)
=============================================================================
