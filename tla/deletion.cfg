\* Two workers, one mishap of any kind, and either an e-mail change or two of:
\* a workspace founded or joined, a new password.
SPECIFICATION FairDeletionSpec
CONSTANTS
  MaxTime = 1
  MaxChanges = 1
  MaxRebuilds = 0
  Skews = TRUE
  PlaceholderFits = TRUE
  Worker = {w1, w2}
  NoWorker = NoWorker
  MaxMishaps = 1
  MaxOthers = 2
  Mixed = FALSE
INVARIANT CompletedMeansErased
PROPERTIES
  NeverReopened
  KeepsProjection
  Completes
CHECK_DEADLOCK FALSE
