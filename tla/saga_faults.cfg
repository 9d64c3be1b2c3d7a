\* Two workers, two steps (one of them remote), two attempts; one run cut
\* short, one lease overrun and one orphaned request, in any combination.
SPECIFICATION Spec
CONSTANTS
  Worker = {w1, w2}
  NoWorker = NoWorker
  NSteps = 2
  Remote = {2}
  MaxAttempts = 2
  MaxTriggers = 1
  MaxAbandons = 1
  MaxOverruns = 1
  MaxOrphans = 1
INVARIANTS
  TypeOK
  SoleRunner
  CompletedHoldsAll
  CompensatedHoldsNone
SYMMETRY WorkerSymmetry
CHECK_DEADLOCK FALSE
