----------------------------- MODULE ChainAnchor -----------------------------
(***************************************************************************)
(* The writers, the indexer and the chain between them.                     *)
(***************************************************************************)
EXTENDS ChainSubmission, TaskHistoryIndexer

CONSTANT MaxEvents  \* bound: submissions and mishaps together

ASSUME AnchorAssumption == MaxEvents \in Nat

VARIABLE
  overtaken   \* history: a reorganisation came between the receipt and the
              \* height that a worker judges it by

anchorVars == <<chainVars, submissionVars, indexerVars, overtaken>>

AnchorInit ==
  ChainInit /\ SubmissionInit /\ IndexerInit /\ overtaken = FALSE

\* What the bound counts.
Submitted == {s \in Submission : status[s] # "none"}
Events == Cardinality(Submitted) + faults + reorgs + rebuilds + failedPolls
            + Cardinality(erased)

Reorganisation(n) ==
  /\ Events < MaxEvents
  /\ Reorganise(n)
  /\ overtaken' = (overtaken \/ Overtakes(n))
  /\ torn' = (torn \/ Tears(n))
  /\ UNCHANGED <<submissionVars, projectionVars, indexer, rebuilds, failedPolls>>

AnchorStep ==
  \/ SubmissionNext /\ UNCHANGED <<indexerVars, overtaken>>
  \/ IndexerNext /\ UNCHANGED <<chainVars, submissionVars, overtaken>>
  \/ Mine /\ UNCHANGED <<submissionVars, indexerVars, overtaken>>
  \/ \E n \in 1..Height : Reorganisation(n)

AnchorNext == AnchorStep /\ Events' <= MaxEvents

AnchorSpec == AnchorInit /\ [][AnchorNext]_anchorVars

-----------------------------------------------------------------------------
(* Properties *)

AnchorTypeOK ==
  ChainTypeOK /\ SubmissionTypeOK /\ IndexerTypeOK /\ overtaken \in BOOLEAN

\* A final status tells the truth about the chain, as long as no
\* reorganisation goes as deep as the confirmations and none falls between the
\* two calls of a check (markConfirmed, markAbandoned).
FinalIsMined ==
  \A s \in Submission :
    status[s] \in {"confirmed", "abandoned"} /\ ~deep /\ ~overtaken =>
      TxOf(s) \in Mined /\ (status[s] = "confirmed" <=> Succeeds(TxOf(s)))

\* Once a poll has compared its latest mark the projection is what the
\* contract emitted up to the checkpoint, after reorganisations of any depth,
\* failed polls and rebuilds, unless one replaced confirmed blocks in the
\* middle of a scan (reconcileReorganization, commitScannedRange); and without
\* a reorganisation as deep as the confirmations it is so at all times, and
\* nothing that was indexed is taken back (safeHead of pollOnce).
ProjectionFaithful ==
  LET faithful == events = EventsIn(1, NextBlock - 1)
  IN /\ ~torn /\ indexer.at \in {"head", "logs", "commit"} => faithful
     /\ ~deep => faithful /\ indexer.at # "search"
=============================================================================
